---------------------------- MODULE Spec2Model ----------------------------
(***************************************************************************)
(* The run coordination core of pydiverse.pipedag: the per-run state       *)
(* server RunContextServer (stage lifecycle, reference counting, task      *)
(* memo) as a state machine of request-handling threads.                   *)
(***************************************************************************)
EXTENDS Integers, Sequences, FiniteSets, TLC

(***************************************************************************)
(* Bounds of the model.                                                    *)
(***************************************************************************)
\* request-handling threads of the server (one per RPC in flight)
NumThreads == 2
\* tasks of the flow; task ids are the dense integers 0..NumTasks-1
NumTasks == 2
\* cap of the history counters and logs (granted transitions, issued
\* releases, memo reads and stores)
MaxGrants == 2

Threads == 1..NumThreads
\* the stage ids of the flow (dense integers from 0): a flow of two stages
Stages == {0, 1}
Tasks == 0..(NumTasks - 1)

(***************************************************************************)
(* class StageState                                                        *)
(***************************************************************************)
UNINITIALIZED == "UNINITIALIZED"
INITIALIZING == "INITIALIZING"
READY == "READY"
COMMITTING == "COMMITTING"
COMMITTED == "COMMITTED"
FAILED == "FAILED"

StageState == {UNINITIALIZED, INITIALIZING, READY, COMMITTING, COMMITTED, FAILED}

\* the two transitions: enter_init_stage / exit_init_stage and
\* enter_commit_stage / exit_commit_stage
Kinds == {"init", "commit"}

\* the from_, transition and to arguments the four RPC operations pass on
From(k) == IF k = "init" THEN UNINITIALIZED ELSE READY
Transition(k) == IF k = "init" THEN INITIALIZING ELSE COMMITTING
To(k) == IF k = "init" THEN READY ELSE COMMITTED

(***************************************************************************)
(* What a finished call handed back: a returned value or the class of the  *)
(* exception it raised.  "None" is Python's None (a function that ends     *)
(* without a return statement).                                            *)
(***************************************************************************)
RetNone == "None"
RetTrue == "True"
RetFalse == "False"
StageError == "StageError"
RuntimeError == "RuntimeError"
ValueError == "ValueError"
IndexError == "IndexError"
LockError == "LockError"
Exception == "Exception"

(***************************************************************************)
(* class FinalTaskState: UNKNOWN = 0, COMPLETED = 1, FAILED = 2,           *)
(* SKIPPED = 3                                                             *)
(***************************************************************************)
FinalTaskState == {0, 1, 2, 3}

(***************************************************************************)
(* class MemoState; every other value of a memo entry is a stored result   *)
(***************************************************************************)
NONE == "NONE"
WAITING == "WAITING"
MemoFAILED == "FAILED"
MemoState == {NONE, WAITING, MemoFAILED}

\* materialised results a task may store
Values == {"r1", "r2"}

\* cache_keys arguments: the values of the dict in order, each a string given
\* by its characters.  {"default": "a-b"} and {"default": "a", "tasks_only": "b"}
CacheKeys == { << <<"a", "-", "b">> >>, << <<"a">>, <<"b">> >> }

\* "-".join(cache_keys.values())
RECURSIVE Join(_)
Join(values) ==
    IF values = <<>> THEN <<>>
    ELSE IF Len(values) = 1 THEN values[1]
    ELSE values[1] \o <<"-">> \o Join(Tail(values))

\* the keys the memo table can hold: (stage id, sub_key)
MemoKeys == Stages \X {Join(cache_keys) : cache_keys \in CacheKeys}

(***************************************************************************)
(* TABLE / BLOB: Names.  The arguments and answers of add_names and         *)
(* remove_names.                                                           *)
(***************************************************************************)
KeyError == "KeyError"

\* longest list of table names in a request
MaxNames == 2

\* table names and blob names in use; "t" names a table and a blob
TableNames == {"t", "u"}
BlobNames == {"t"}

\* the `tables` arguments: lists, a name may occur twice
TableLists == UNION {[1..n -> TableNames] : n \in 0..MaxNames}
\* the `blobs` arguments
BlobLists == {<<>>} \cup {<<b>> : b \in BlobNames}

\* the names of a list
Elems(list) == {list[i] : i \in 1..Len(list)}

\* a request and the [error, result] pair handle_request answers it with:
\* `success` is the "success" entry of add_names' dict ("None" for
\* remove_names, whose result is None), the duplicates are empty where the
\* dict has none
Answer(op, s, tables, blobs, error, success, table_duplicates, blob_duplicates) ==
    [op |-> op, stage |-> s, tables |-> tables, blobs |-> blobs,
     error |-> error, success |-> success,
     table_duplicates |-> table_duplicates, blob_duplicates |-> blob_duplicates]

NoResponse == Answer("-", 0, <<>>, <<>>, "-", "-", <<>>, <<>>)

(***************************************************************************)
(* LOCKING.  The lock manager, shared by the flows that run against the    *)
(* same store, and the LockState it reports.                               *)
(***************************************************************************)
\* flows started against the same lock manager
NumFlows == 2
Flows == 1..NumFlows

\* how often a lock may become UNCERTAIN
MaxUncertain == 2

\* the names under which stages are locked
LockNames == {"x", "y"}

\* the stage lists a flow can have: lock names without repetition, in the
\* order of the flow's stage ids
StageLists ==
    {list \in UNION {[1..n -> LockNames] : n \in 0..Cardinality(LockNames)} :
        \A i, j \in 1..Len(list) : i # j => list[i] # list[j]}

LOCKED == "LOCKED"
UNLOCKED == "UNLOCKED"
INVALID == "INVALID"
UNCERTAIN == "UNCERTAIN"
LockState == {LOCKED, UNLOCKED, INVALID, UNCERTAIN}

\* a run server before __enter__: i counts the stage locks its acquire loop
\* has taken, todo is the list of locks __exit__ goes through
NotEntered == [at |-> "constructed", i |-> 0, todo |-> <<>>]

(***************************************************************************)
(* CLIENT PROXY (class RunContext).  Requests and responses on the wire,    *)
(* and what the proxy hands to its caller.                                  *)
(***************************************************************************)
AttributeError == "AttributeError"
TypeError == "TypeError"
RemoteProcessError == "RemoteProcessError"

\* the classes of the exceptions an operation of the server can raise
Exceptions == {StageError, RuntimeError, ValueError, IndexError, LockError,
               Exception, KeyError, AttributeError, TypeError}

\* the op names a request can carry: the four stage operations, the name of a
\* data attribute of the server, and a name the server does not have
StageOps == {"enter_init_stage", "exit_init_stage",
             "enter_commit_stage", "exit_commit_stage"}
OpNames == StageOps \cup {"stage_state", "no_such_op"}

\* the transition an op name belongs to
KindOf(op) == IF op \in {"enter_init_stage", "exit_init_stage"} THEN "init" ELSE "commit"

\* the op names of a transition
EnterOp(k) == IF k = "init" THEN "enter_init_stage" ELSE "enter_commit_stage"
ExitOp(k) == IF k = "init" THEN "exit_init_stage" ELSE "exit_commit_stage"

\* pickle.dumps(e) and pickle.loads(data): the bytes of an exception and the
\* exception they decode to
PickleDumps(e) == <<"pickle", e>>
PickleLoads(data) == data[2]

\* a proxy with no request in flight
\* (failed_before: 1 if a request had failed when this one was sent)
NoCall == [at |-> "ready", op |-> "-", stage |-> 0, success |-> FALSE,
           failed_before |-> 0]
\* the error of a response that carries none (None on the wire)
Null == <<>>

\* no response on the wire
NoWire == [error |-> Null, result |-> RetNone]
\* _request has not handed anything to its caller
NoGot == [value |-> "-", raised |-> "-", cause |-> "-"]
\* a worker outside the init_stage / commit_stage scopes
NoScope == [at |-> "out", stage |-> 0, kind |-> "-", yielded |-> "-",
            body |-> "-", exits |-> <<>>, outcome |-> "-", cause |-> "-"]

(***************************************************************************)
(* MATERIALISATION WRAPPER (class MaterialisationWrapper), the store it     *)
(* uses, and the flow `out -> child` whose runs call it.                    *)
(***************************************************************************)
CacheError == "CacheError"

\* runs of the flow in one process
MaxRuns == 3

\* the tasks of the flow: child takes the output of out as its input
WTasks == {"out", "child"}

\* what the user cache function of out and the body of a task can return
WValues == {"v0", "v1"}

\* what can stand for the cache function in a cache key or with a lazy table
WCacheParts == {"-", "omitted"} \cup WValues

\* a task input: the value and, for the output of a lazy task, the table
\* the store keeps for it, named by the cache function part it was made with
WInputs == [value : {"-"} \cup WValues, table : WCacheParts]

\* the input of a task without arguments
NoInput == [value |-> "-", table |-> "-"]

\* get_cache_key_type without the ignore_fresh_input branch
GetCacheKeyType_AlwaysDefault(ignore_fresh_input) == "default"

\* RunContext.get_cache_key_type
GetCacheKeyType(ignore_fresh_input) ==
    IF ignore_fresh_input THEN "tasks_only" ELSE "default"

\* store.compute_task_cache_key: the hash of the task identity, the input
\* fingerprint and the output of the task's cache function, which is left
\* out for the key type "tasks_only"; a task without a cache function
\* contributes nothing ("-")
CacheFnPart(cache_fn_output, cache_key_type) ==
    IF cache_fn_output = "-" THEN "-"
    ELSE IF cache_key_type = "tasks_only" THEN "omitted" ELSE cache_fn_output

ComputeKey(task, input, cache_fn_output, cache_key_type) ==
    <<task, input, CacheFnPart(cache_fn_output, cache_key_type)>>

\* the cache keys there are
WKeys == WTasks \X WInputs \X WCacheParts

\* the sentinel `_nil` and a threading.Condition in the memo
Nil == "_nil"
Condition == "Condition"

\* deepmutate(memo_result, copy.copy): a copy with the content of the original
Copy(content) == [content |-> content, copied |-> TRUE]
\* an object handed out as it is
Original(content) == [content |-> content, copied |-> FALSE]

\* nothing returned
NoValue == [content |-> "-", copied |-> FALSE]

\* a worker outside MaterialisationWrapper.__call__
NoCaller == [at |-> "idle", task |-> "-", key |-> <<>>, input |-> NoInput,
             cache_error |-> FALSE, ran |-> 0, result |-> "-",
             returned |-> NoValue, raised |-> "-"]

\* the store's cache holds no output of the task
NoCached == [input |-> NoInput, cache_fn |-> "-", value |-> "-",
             table |-> "-", valid |-> FALSE]

\* no run has been started
NoRun == [run |-> 0, ignore_fresh_input |-> FALSE, cache_value |-> "v0",
          lazy_value |-> "v0"]

\* there is no previous run
NoPrev == [out |-> "-", child |-> "-", cache_fn |-> "-", table |-> "-",
           ignore_fresh_input |-> FALSE]

(***************************************************************************)
(* CONTEXT OBJECTS (context.py): BaseContext.__enter__ / __exit__ with the *)
(* enter counter, and ConfigContext.open / close.                          *)
(***************************************************************************)

\* the context objects of one class (they share the class's context variable)
Contexts == {"a", "b"}

\* how deep the with blocks are nested, and how many open() / close() calls
\* of one object are followed
MaxDepth == 4
MaxCalls == 4

\* the context variable has no value
Unset == "unset"

\* `_token = None`, and the Token of a _context_var.set, which remembers the
\* value the variable had before
NoToken == [set |-> FALSE, old_value |-> "-"]
Token(old_value) == [set |-> TRUE, old_value |-> old_value]

\* ConfigContext.open / close: [self.store, self.lock_manager, self.engine]
Openers == <<"store", "lock_manager", "engine">>

(***************************************************************************)
(* SERVER MUTEXES (run_context.py): the four Lock objects made in          *)
(* RunContextServer.__init__ and the `with` blocks and @synchronized       *)
(* decorators that take them.                                              *)
(***************************************************************************)

Mutexes == {"stage_state_lock", "ref_count_lock", "names_lock", "task_memo_lock"}

\* the operations that work on the stage state and take its kind
EnterStageOps == {"enter_init_stage", "enter_commit_stage"}
ExitStageOps == {"exit_init_stage", "exit_commit_stage"}

\* the operations that call the lock manager and take no mutex
LockManagerOps == {"acquire_stage_lock", "release_stage_lock",
                   "validate_stage_lock"}

\* the mutex an operation takes: the one of its `with` block resp. of its
\* @synchronized decorator
MutexOf(op) ==
    IF op \in EnterStageOps \cup ExitStageOps \cup {"get_stage_state"}
    THEN "stage_state_lock"
    ELSE IF op \in {"get_stage_ref_count", "did_finish_task"}
    THEN "ref_count_lock"
    ELSE IF op \in {"enter_task_memo", "exit_task_memo", "store_task_memo"}
    THEN "task_memo_lock"
    ELSE IF op \in {"add_names", "remove_names"}
    THEN "names_lock"
    ELSE "-"

\* the operations of the server
ServerOps == {"get_stage_ref_count", "get_stage_state", "did_finish_task",
              "enter_task_memo", "exit_task_memo", "store_task_memo",
              "add_names", "remove_names"}
             \cup EnterStageOps \cup ExitStageOps \cup LockManagerOps

\* init or commit
StageKind(op) == IF op \in {"enter_init_stage", "exit_init_stage"}
                 THEN "init" ELSE "commit"

(***************************************************************************)
(* WRAPPER LOCK AND CONDITIONS (materialise.py): self.__lock, the          *)
(* threading.Condition objects that stand in the memo for a call in        *)
(* progress, and the callers of one task with one cache key, step by step. *)
(***************************************************************************)

\* the threads that call the wrapper with the same task and cache key
WrapperThreads == {1, 2, 3}

\* what the memo holds for the key: _nil, the Condition made by the caller
\* `id`, or a materialised result
NilEntry == [kind |-> Nil, id |-> 0, content |-> Nil]
ConditionEntry(id) == [kind |-> Condition, id |-> id, content |-> "-"]
ResultEntry == [kind |-> "result", id |-> 0, content |-> "v0"]

\* a Condition nobody holds or waits on
NoCondition == [lock |-> 0, waiters |-> {}]

\* a thread outside __call__; `cond` is the Condition its local variable
\* (memo_result, condition) refers to
NoWCall == [at |-> "idle", cond |-> 0, returned |-> NoValue, raised |-> "-"]

\* a handler thread that serves no request
NoHandler == [op |-> "-", at |-> "idle", success |-> FALSE, block |-> 0,
              task |-> 0, todo |-> {}]

VARIABLES
    phase,         \* "constructed" after __init__, "running" after __enter__
    upstream,       \* the flow: task id -> task.upstream_stages (stage ids)
    stage_state,    \* RunContextServer.stage_state: stage id -> StageState
    ref_count,      \* RunContextServer.ref_count: stage id -> counter
    locked,         \* lock manager: the stages whose lock this run holds
    pc,             \* per thread: where its current request handler stands
    ret,            \* per thread: outcome of the last call it completed
    reported,       \* the tasks whose did_finish_task request was issued
    grants,         \* history: per stage and kind, how many enter_* calls returned True
    released,       \* history: per stage, how many lock_manager.release calls
                    \* did_finish_task issued
    stage_of,       \* the flow: task id -> id of the stage the task belongs to
    task_memo,      \* RunContextServer.task_memo: memo key -> MemoState or result
    entered,        \* history: per memo key, how many enter_task_memo calls read it
    misses,         \* history: per memo key, how many of them returned (False, None)
    stored,         \* history: per memo key, the results that replaced WAITING
    table_names,    \* RunContextServer.table_names: stage id -> set of names
    blob_names,     \* RunContextServer.blob_names: stage id -> set of names
    names_lock,     \* RunContextServer.names_lock: the thread holding it, or 0
    response,       \* the add_names / remove_names request answered last and
                    \* its answer; none while such a request is being handled
    order,          \* per flow: its stages in the order of their ids, each
                    \* given by the name of its lock
    srv,            \* per flow: where its run server stands
    setup_lock,     \* lock manager: the flow holding "_pipedag_setup_", or 0
    stage_lock,     \* lock manager: per lock name the flow holding it, or 0
    issued,         \* history: per flow, the locks __exit__ called release for
    lock_state,     \* lock manager: stage id -> LockState it reports for the
                    \* lock of the stage
    uncertain,      \* history: how often a lock became UNCERTAIN
    call,           \* per worker: the request its proxy has in flight; the
                    \* server thread of the same number handles it
    wire,           \* per worker: the [error, result] response handle_request returned
    got,            \* per worker: what the last _request call returned or raised
    scope,          \* per worker: where it stands in an init_stage / commit_stage scope
    failures,       \* history: 1 once a request was answered with an error, else 0
    wrapper_memo,   \* MaterialisationWrapper.memo: cache key -> _nil, a Condition or a result
    caller,         \* per worker: where it stands in MaterialisationWrapper.__call__
    executed,       \* history: per task, how often its body ran in the current run
    cache,          \* the store: per task the cached output of the last materialisation
    lazy,           \* the flow: task -> its lazy flag
    env,            \* the run: its number, its ignore_fresh_input flag, and what
                    \* the cache function and a lazy body return
    prev,           \* history: the results and body executions of the previous run
    enter_counter,  \* BaseContext._enter_counter of each context object
    token,          \* BaseContext._token of each context object
    context_var,    \* the value of ConfigContext._context_var in the thread
    resources,      \* the resources of each context object that are open
    entered_ctx,    \* the with blocks the thread is in, innermost last
    ctx_calls,      \* the open() and close() calls made on each context object
    enter_failed,   \* an __enter__ of the context object has raised
    mutex,          \* the four Lock objects of the server: the handler thread holding each, 0 for none
    handler,        \* the position of each handler thread in the operation it serves
    wrapper_lock,   \* self.__lock of the wrapper: 0 or the thread that holds it
    condition,      \* the Condition objects, by the caller that made them: lock and waiters
    memo_entry,     \* self.memo[task.schema][cache_key] of the one key the callers share
    wcall           \* where each caller of that key is in __call__ / store_in_memo / task_state_handler

vars == <<phase, upstream, stage_state, ref_count, locked, pc, ret, reported,
          grants, released, stage_of, task_memo, entered, misses, stored,
          table_names, blob_names, names_lock, response,
          order, srv, setup_lock, stage_lock, issued, lock_state, uncertain,
          call, wire, got, scope, failures,
          wrapper_memo, caller, executed, cache, lazy, env, prev,
          enter_counter, token, context_var, resources, entered_ctx, ctx_calls, enter_failed,
          mutex, handler,
          wrapper_lock, condition, memo_entry, wcall>>

\* the lock manager and the run servers using it
lockVars == <<order, srv, setup_lock, stage_lock, issued, uncertain>>

\* the name registry, its mutex and the last answer
namesVars == <<table_names, blob_names, names_lock, response>>

\* the memo table and its history
memoVars == <<stage_of, task_memo, entered, misses, stored>>

\* the workers: proxies, scopes, task wrappers and context objects
clientVars == <<call, wire, got, scope, failures,
               wrapper_memo, caller, executed, cache, lazy, env, prev,
               enter_counter, token, context_var, resources, entered_ctx, ctx_calls, enter_failed,
               mutex, handler,
               wrapper_lock, condition, memo_entry, wcall>>

\* the mutexes of the server and the handler threads taking them
mutexVars == <<mutex, handler>>

\* the wrapper lock, the Conditions and their callers
condVars == <<wrapper_lock, condition, memo_entry, wcall>>

\* the context objects of the thread
ctxVars == <<enter_counter, token, context_var, resources, entered_ctx,
             ctx_calls, enter_failed>>

\* the task wrapper, the store and the runs of the flow
wrapperVars == <<wrapper_memo, caller, executed, cache, lazy, env, prev>>

\* what the stage RPCs leave alone
refVars == <<phase, upstream, ref_count, locked, lock_state, reported, released,
             memoVars, namesVars, lockVars, clientVars>>

Idle == [at |-> "idle", stage |-> 0, kind |-> "-"]

----------------------------------------------------------------------------
(***************************************************************************)
(* STAGE: State                                                            *)
(***************************************************************************)

Bump(n) == IF n < MaxGrants THEN n + 1 ELSE n

\* EnterLocked with the write of the transitional state forgotten
EnterLocked_NoMark(t, s, k) ==
    /\ pc[t].at = "idle"
    /\ IF stage_state[s] = To(k)
       THEN /\ ret' = [ret EXCEPT ![t] = RetFalse]
            /\ UNCHANGED <<stage_state, pc, grants>>
       ELSE IF stage_state[s] = From(k)
       THEN /\ ret' = [ret EXCEPT ![t] = RetTrue]
            /\ grants' = [grants EXCEPT ![s][k] = Bump(@)]
            /\ UNCHANGED <<stage_state, pc>>
       ELSE /\ pc' = [pc EXCEPT ![t] = [at |-> "wait", stage |-> s, kind |-> k]]
            /\ ret' = [ret EXCEPT ![t] = "-"]
            /\ UNCHANGED <<stage_state, grants>>
    /\ UNCHANGED refVars

\* _enter_stage_state_transition, first `with self.stage_state_lock` block:
\* the target state answers False, the start state is moved to the
\* transitional state and answers True, anything else falls through to the
\* wait loop.
EnterLocked(t, s, k) ==
    /\ pc[t].at = "idle"
    /\ IF stage_state[s] = To(k)
       THEN /\ ret' = [ret EXCEPT ![t] = RetFalse]
            /\ UNCHANGED <<stage_state, pc, grants>>
       ELSE IF stage_state[s] = From(k)
       THEN /\ stage_state' = [stage_state EXCEPT ![s] = Transition(k)]
            /\ ret' = [ret EXCEPT ![t] = RetTrue]
            /\ grants' = [grants EXCEPT ![s][k] = Bump(@)]
            /\ UNCHANGED pc
       ELSE /\ pc' = [pc EXCEPT ![t] = [at |-> "wait", stage |-> s, kind |-> k]]
            /\ ret' = [ret EXCEPT ![t] = "-"]
            /\ UNCHANGED <<stage_state, grants>>
    /\ UNCHANGED refVars

\* the wait loop ending only when the stage has reached the target state
EnterWait_OnlyOnTarget(t) ==
    /\ pc[t].at = "wait"
    /\ stage_state[pc[t].stage] = To(pc[t].kind)
    /\ pc' = [pc EXCEPT ![t].at = "check"]
    /\ UNCHANGED <<stage_state, ret, grants>>
    /\ UNCHANGED refVars

\* the polling loop `while self.stage_state[stage_id] == transition`, read
\* without the lock: the handler leaves it once the state differs.
EnterWait(t) ==
    /\ pc[t].at = "wait"
    /\ stage_state[pc[t].stage] # Transition(pc[t].kind)
    /\ pc' = [pc EXCEPT ![t].at = "check"]
    /\ UNCHANGED <<stage_state, ret, grants>>
    /\ UNCHANGED refVars

\* EnterCheck answering False for every state that ended the wait
EnterCheck_FailedFalse(t) ==
    /\ pc[t].at = "check"
    /\ ret' = [ret EXCEPT ![t] = RetFalse]
    /\ pc' = [pc EXCEPT ![t] = Idle]
    /\ UNCHANGED <<stage_state, grants>>
    /\ UNCHANGED refVars

\* second `with self.stage_state_lock` block: False for the target state,
\* StageError for FAILED, and the end of the function (None) otherwise.
EnterCheck(t) ==
    /\ pc[t].at = "check"
    /\ LET state == stage_state[pc[t].stage] IN
       ret' = [ret EXCEPT ![t] =
                 IF state = To(pc[t].kind) THEN RetFalse
                 ELSE IF state = FAILED THEN StageError
                 ELSE RetNone]
    /\ pc' = [pc EXCEPT ![t] = Idle]
    /\ UNCHANGED <<stage_state, grants>>
    /\ UNCHANGED refVars

\* Exit with the success branch's state check left out
Exit_NoCheck(t, s, k, success) ==
    /\ pc[t].at = "idle"
    /\ stage_state' = [stage_state EXCEPT ![s] = IF success THEN To(k) ELSE FAILED]
    /\ ret' = [ret EXCEPT ![t] = RetNone]
    /\ UNCHANGED <<pc, grants>>
    /\ UNCHANGED refVars

\* Exit with the state check done before the failure branch
Exit_CheckFirst(t, s, k, success) ==
    /\ pc[t].at = "idle"
    /\ IF stage_state[s] = Transition(k)
       THEN /\ stage_state' = [stage_state EXCEPT ![s] = IF success THEN To(k) ELSE FAILED]
            /\ ret' = [ret EXCEPT ![t] = RetNone]
       ELSE /\ ret' = [ret EXCEPT ![t] = RuntimeError]
            /\ UNCHANGED stage_state
    /\ UNCHANGED <<pc, grants>>
    /\ UNCHANGED refVars

\* _exit_stage_state_transition: a failure stores FAILED whatever the state
\* is; a success moves the transitional state to the target and raises
\* RuntimeError from any other state.
Exit(t, s, k, success) ==
    /\ pc[t].at = "idle"
    /\ IF ~success
       THEN /\ stage_state' = [stage_state EXCEPT ![s] = FAILED]
            /\ ret' = [ret EXCEPT ![t] = RetNone]
       ELSE IF stage_state[s] = Transition(k)
       THEN /\ stage_state' = [stage_state EXCEPT ![s] = To(k)]
            /\ ret' = [ret EXCEPT ![t] = RetNone]
       ELSE /\ ret' = [ret EXCEPT ![t] = RuntimeError]
            /\ UNCHANGED stage_state
    /\ UNCHANGED <<pc, grants>>
    /\ UNCHANGED refVars

\* a process in which no flow has been defined or run
WrapperUnused ==
    /\ lazy = [task \in WTasks |-> FALSE]
    /\ cache = [task \in WTasks |-> NoCached]
    /\ env = NoRun
    /\ prev = NoPrev

\* RunContextServer.__init__: the state arrays of a new server
Constructed ==
    /\ stage_state = [s \in Stages |-> UNINITIALIZED]
    /\ ref_count = [s \in Stages |-> 0]
    /\ pc = [t \in Threads |-> Idle]
    /\ ret = [t \in Threads |-> "-"]
    /\ reported = {}
    /\ grants = [s \in Stages |-> [k \in Kinds |-> 0]]
    /\ released = [s \in Stages |-> 0]
    /\ task_memo = [key \in MemoKeys |-> NONE]
    /\ entered = [key \in MemoKeys |-> 0]
    /\ misses = [key \in MemoKeys |-> 0]
    /\ stored = [key \in MemoKeys |-> <<>>]
    /\ table_names = [s \in Stages |-> {}]
    /\ blob_names = [s \in Stages |-> {}]
    /\ names_lock = 0
    /\ response = NoResponse
    /\ srv = [f \in Flows |-> NotEntered]
    /\ setup_lock = 0
    /\ stage_lock = [l \in LockNames |-> 0]
    /\ issued = [f \in Flows |-> {}]
    /\ uncertain = 0
    /\ call = [t \in Threads |-> NoCall]
    /\ wire = [t \in Threads |-> NoWire]
    /\ got = [t \in Threads |-> NoGot]
    /\ scope = [t \in Threads |-> NoScope]
    /\ failures = 0
    /\ wrapper_memo = [key \in WKeys |-> Nil]
    /\ caller = [t \in Threads |-> NoCaller]
    /\ executed = [task \in WTasks |-> 0]
    /\ enter_counter = [o \in Contexts |-> 0]
    /\ token = [o \in Contexts |-> NoToken]
    /\ context_var = Unset
    /\ resources = [o \in Contexts |-> {}]
    /\ entered_ctx = <<>>
    /\ ctx_calls = [o \in Contexts |-> <<>>]
    /\ enter_failed = [o \in Contexts |-> FALSE]
    /\ mutex = [m \in Mutexes |-> 0]
    /\ handler = [t \in Threads |-> NoHandler]
    /\ wrapper_lock = 0
    /\ condition = [c \in WrapperThreads |-> NoCondition]
    /\ memo_entry = NilEntry
    /\ wcall = [t \in WrapperThreads |-> NoWCall]

\* a server that has entered its run with a flow none of whose tasks reads
\* another stage: every stage locked, every reference counter 0
InitStage ==
    /\ Constructed
    /\ WrapperUnused
    /\ phase = "running"
    /\ order = [f \in Flows |-> <<>>]
    /\ upstream = [task \in Tasks |-> {}]
    /\ stage_of = [task \in Tasks |-> 0]
    /\ locked = Stages
    /\ lock_state = [s \in Stages |-> LOCKED]

NextStage ==
    \/ \E t \in Threads, s \in Stages, k \in Kinds : EnterLocked(t, s, k)
    \/ \E t \in Threads : EnterWait(t)
    \/ \E t \in Threads : EnterCheck(t)
    \/ \E t \in Threads, s \in Stages, k \in Kinds, success \in BOOLEAN :
          Exit(t, s, k, success)

\* any sequence and interleaving of the four stage RPCs
SpecStage == InitStage /\ [][NextStage]_vars

\* the handler threads go on: time.sleep(0.01) returns and the loop
\* condition is read again, and the second locked block is run
FairStage ==
    /\ SpecStage
    /\ \A t \in Threads : WF_vars(EnterWait(t))
    /\ \A t \in Threads : WF_vars(EnterCheck(t))

\* C31: an enter_init_stage / enter_commit_stage in its wait loop leaves
\* the loop only when the stage is not in the transitional state of the
\* call, and once the owner's exit_*_stage has put the stage into the
\* target state or into FAILED the call returns or raises in the end,
\* whatever else is done to the stage.
C31_WaiterReturnsAfterExit ==
    /\ [][\A t \in Threads :
             (pc[t].at = "wait" /\ pc'[t].at # "wait") =>
                 stage_state[pc[t].stage] # Transition(pc[t].kind)]_vars
    /\ \A t \in Threads :
          (pc[t].at = "wait"
             /\ stage_state[pc[t].stage] \in {To(pc[t].kind), FAILED})
          ~> (pc[t].at = "idle")

\* a call of enter_init_stage that met INITIALIZING has left its loop, and
\* the stage has meanwhile been taken on to COMMITTING by another caller
C31_Witness ==
    \E t \in Threads :
        /\ pc[t].at = "check" /\ pc[t].kind = "init"
        /\ stage_state[pc[t].stage] = COMMITTING

----------------------------------------------------------------------------
(***************************************************************************)
(* Claims about the stage lifecycle (SpecStage)                            *)
(***************************************************************************)

\* a step in which the enter_* call of thread t for (s, k) hands back its
\* result: out of the first locked block or out of the final check
EnterReturns(t, s, k) ==
    \/ EnterLocked(t, s, k) /\ pc'[t].at = "idle"
    \/ pc[t] = [at |-> "check", stage |-> s, kind |-> k] /\ EnterCheck(t)

\* C1: for every stage and each of its two transitions at most one enter_*
\* call of the run returns True.
C1_AtMostOneGrant ==
    \A s \in Stages, k \in Kinds : grants[s][k] <= 1

\* both transitions of a stage were granted and a further caller is held in
\* the wait loop
C1_Witness ==
    \E s \in Stages, t \in Threads :
        /\ grants[s]["init"] = 1
        /\ grants[s]["commit"] = 1
        /\ pc[t].at = "wait" /\ pc[t].stage = s

\* the next state of the chain UNINITIALIZED -> ... -> COMMITTED
ChainNext(state) ==
    CASE state = UNINITIALIZED -> INITIALIZING
      [] state = INITIALIZING -> READY
      [] state = READY -> COMMITTING
      [] state = COMMITTING -> COMMITTED
      [] OTHER -> "-"

\* C2: every change of a stage's state is the next step of the chain
\* UNINITIALIZED -> INITIALIZING -> READY -> COMMITTING -> COMMITTED or a
\* move to FAILED, and a FAILED stage never changes state again.
C2_LifecycleChain ==
    [][\A s \in Stages :
          stage_state'[s] # stage_state[s] =>
              /\ stage_state[s] # FAILED
              /\ stage_state'[s] \in {ChainNext(stage_state[s]), FAILED}]_vars

\* one stage ran through the whole chain, another one failed mid-transition
C2_Witness ==
    \E s1, s2 \in Stages :
        /\ stage_state[s1] = COMMITTED
        /\ stage_state[s2] = FAILED
        /\ grants[s2]["init"] = 1

\* C3: once a stage is FAILED, every enter_init_stage / enter_commit_stage
\* call for it that ends (one that was waiting as well as a later one) raises
\* StageError; none returns True, False or None.
C3_FailedRaises ==
    [][\A t \in Threads, s \in Stages, k \in Kinds :
          (stage_state[s] = FAILED /\ EnterReturns(t, s, k)) =>
              ret'[t] = StageError]_vars

\* a stage is FAILED and every thread's last call ended with StageError
C3_Witness ==
    /\ \E s \in Stages : stage_state[s] = FAILED
    /\ \A t \in Threads : ret[t] = StageError /\ pc[t].at = "idle"

\* C4: an enter_* call that does not raise returns a boolean, and it returns
\* a non-true result only when the stage is in the target state at the
\* return, from whatever state the call was issued in.
C4_BoolAndFalseMeansTarget ==
    [][\A t \in Threads, s \in Stages, k \in Kinds :
          (EnterReturns(t, s, k) /\ ret'[t] # StageError) =>
              /\ ret'[t] \in {RetTrue, RetFalse}
              /\ ret'[t] # RetTrue => stage_state'[s] = To(k)]_vars

\* C5 (as stated): exit_* raises RuntimeError and leaves the state unchanged
\* whenever the stage is not in the matching transitional state, for
\* success = true as well as success = false; in the transitional state it
\* moves the stage to the target or to FAILED.
C5_ExitRejectsOutsideTransition ==
    [][\A t \in Threads, s \in Stages, k \in Kinds, success \in BOOLEAN :
          Exit(t, s, k, success) =>
              IF stage_state[s] # Transition(k)
              THEN ret'[t] = RuntimeError /\ stage_state' = stage_state
              ELSE stage_state'[s] = (IF success THEN To(k) ELSE FAILED)]_vars

\* C5 (amended): exit_*(success = true) raises RuntimeError and leaves the
\* state unchanged when the stage is not in the matching transitional state
\* and moves it to the target otherwise; exit_*(success = false) raises
\* nothing and stores FAILED from every state.  No other stage changes.
C5_ExitSuccessChecked ==
    [][\A t \in Threads, s \in Stages, k \in Kinds, success \in BOOLEAN :
          Exit(t, s, k, success) =>
              /\ \A o \in Stages \ {s} : stage_state'[o] = stage_state[o]
              /\ IF ~success
                 THEN stage_state'[s] = FAILED /\ ret'[t] = RetNone
                 ELSE IF stage_state[s] # Transition(k)
                 THEN ret'[t] = RuntimeError /\ stage_state' = stage_state
                 ELSE stage_state'[s] = To(k) /\ ret'[t] = RetNone]_vars

\* an exit_* with success = true was refused, and a stage that had completed
\* its init transition was set to FAILED afterwards
C5_Witness ==
    \E t \in Threads, s \in Stages :
        /\ ret[t] = RuntimeError
        /\ stage_state[s] = FAILED
        /\ grants[s]["init"] = 1 /\ grants[s]["commit"] = 1

----------------------------------------------------------------------------
(***************************************************************************)
(* STAGE: Reference Counting, and TASK: did_finish_task                    *)
(***************************************************************************)

\* what the reference counting leaves alone
stageVars == <<stage_state, grants, memoVars, namesVars, lockVars, clientVars>>

\* `for stage in self.stages: for task in stage.all_tasks(): for s in
\* task.upstream_stages: self.ref_count[s.id] += 1`; every task of the flow
\* belongs to exactly one stage, so the two outer loops visit each task once.
RefCountInit(s) == Cardinality({task \in Tasks : s \in upstream[task]})

\* RunContextServer.__enter__: under the "_pipedag_setup_" lock acquire the
\* lock of every stage, then initialise the reference counters.
ServerEnter ==
    /\ phase = "constructed"
    /\ phase' = "running"
    /\ locked' = Stages
    /\ lock_state' = [s \in Stages |-> LOCKED]
    /\ ref_count' = [s \in Stages |-> ref_count[s] + RefCountInit(s)]
    /\ UNCHANGED <<upstream, pc, ret, reported, released, stageVars>>

\* self.tasks[task_id]: a Python list index; -len..-1 count from the end,
\* what lies outside -len..len-1 raises IndexError
ValidIndex(task_id) == task_id >= -NumTasks /\ task_id < NumTasks
TaskAt(task_id) == IF task_id < 0 THEN task_id + NumTasks ELSE task_id

\* the loop under ref_count_lock with every stage of the flow decremented
Decremented_AllStages(task) ==
    [s \in Stages |-> ref_count[s] - 1]

\* the loop under ref_count_lock: one decrement for each upstream stage of the
\* task
Decremented(task) ==
    [s \in Stages |-> IF s \in upstream[task] THEN ref_count[s] - 1 ELSE ref_count[s]]

\* stages_to_release: the upstream stages whose counter the loop brought to 0
\* (a negative counter is logged only)
StagesToRelease(task) ==
    {s \in upstream[task] : Decremented(task)[s] = 0}

\* did_finish_task up to the end of the `with self.ref_count_lock` block:
\* FinalTaskState(final_state_value), self.tasks[task_id], the decrements.
FinishLocked(t, task_id, final_state_value) ==
    /\ phase = "running"
    /\ pc[t].at = "idle"
    /\ IF final_state_value \notin FinalTaskState
       THEN /\ ret' = [ret EXCEPT ![t] = ValueError]
            /\ UNCHANGED <<ref_count, pc, reported>>
       ELSE IF ~ValidIndex(task_id)
       THEN /\ ret' = [ret EXCEPT ![t] = IndexError]
            /\ UNCHANGED <<ref_count, pc, reported>>
       ELSE LET task == TaskAt(task_id) IN
            /\ ref_count' = Decremented(task)
            /\ reported' = reported \cup {task}
            /\ IF StagesToRelease(task) = {}
               THEN /\ ret' = [ret EXCEPT ![t] = RetNone]
                    /\ UNCHANGED pc
               ELSE /\ pc' = [pc EXCEPT ![t] =
                               [at |-> "release", todo |-> StagesToRelease(task)]]
                    /\ ret' = [ret EXCEPT ![t] = "-"]
    /\ UNCHANGED <<phase, upstream, locked, lock_state, released, stageVars>>

\* lock_manager.release(stage) of the lock manager in use: it releases the
\* lock, or it fails with LockError (the backend is external to the server)
ReleaseOutcomes == {"ok", LockError}

\* one pass of `for stage in stages_to_release: self.lock_manager.release(stage)`,
\* outside the ref-count lock; an error of release ends the handler, the
\* stages left in the list are not visited.
ReleaseStep(t, s, outcome) ==
    /\ pc[t].at = "release"
    /\ s \in pc[t].todo
    /\ released' = [released EXCEPT ![s] = Bump(@)]
    /\ IF outcome = "ok"
       THEN /\ locked' = locked \ {s}
            /\ lock_state' = [lock_state EXCEPT ![s] = UNLOCKED]
            /\ IF pc[t].todo = {s}
               THEN pc' = [pc EXCEPT ![t] = Idle] /\ ret' = [ret EXCEPT ![t] = RetNone]
               ELSE pc' = [pc EXCEPT ![t].todo = @ \ {s}] /\ UNCHANGED ret
       ELSE /\ pc' = [pc EXCEPT ![t] = Idle]
            /\ ret' = [ret EXCEPT ![t] = outcome]
            /\ UNCHANGED <<locked, lock_state>>
    /\ UNCHANGED <<phase, upstream, ref_count, reported, stageVars>>

\* the engine running the flow: every task reports its finish once, with a
\* member of FinalTaskState
EngineFinish(t, task, final_state) ==
    /\ task \notin reported
    /\ FinishLocked(t, task, final_state)

\* a constructed server for any flow over Tasks and Stages
InitRun ==
    /\ Constructed
    /\ WrapperUnused
    /\ phase = "constructed"
    /\ order = [f \in Flows |-> <<>>]
    /\ upstream \in [Tasks -> SUBSET Stages]
    /\ stage_of = [task \in Tasks |-> 0]
    /\ locked = {}
    /\ lock_state = [s \in Stages |-> UNLOCKED]

NextRun ==
    \/ ServerEnter
    \/ \E t \in Threads, task \in Tasks, final_state \in FinalTaskState :
          EngineFinish(t, task, final_state)
    \/ \E t \in Threads, s \in Stages, outcome \in ReleaseOutcomes :
          ReleaseStep(t, s, outcome)

\* one run of a flow: the server enters, the tasks finish in any order and
\* concurrently
SpecRun == InitRun /\ [][NextRun]_vars

----------------------------------------------------------------------------
(***************************************************************************)
(* Claims about reference counting and did_finish_task (SpecRun)           *)
(***************************************************************************)

\* the tasks that list stage s among their upstream stages
Consumers(s) == {task \in Tasks : s \in upstream[task]}

\* every did_finish_task call of the run was issued and has ended
AllFinishCallsEnded ==
    /\ phase = "running"
    /\ reported = Tasks
    /\ \A t \in Threads : pc[t].at = "idle"

\* C6: ref_count[s] >= 0 in every reachable state; during the run it is the
\* number of consuming tasks of s that have not reported did_finish_task yet
\* (it starts as the number of consumers, each report takes one off), so it
\* is 0 for every stage once every task has reported.
C6_RefCountOfUnfinishedConsumers ==
    \A s \in Stages :
        /\ ref_count[s] >= 0
        /\ phase = "running" => ref_count[s] = Cardinality(Consumers(s) \ reported)
        /\ (phase = "running" /\ reported = Tasks) => ref_count[s] = 0

\* every task has reported and a stage that two tasks read is back at 0
C6_Witness ==
    /\ phase = "running"
    /\ reported = Tasks
    /\ \E s \in Stages : Cardinality(Consumers(s)) >= 2 /\ ref_count[s] = 0

\* C7: for every stage with a consuming task, did_finish_task issues
\* lock_manager.release(stage) exactly once in a run: not before the counter
\* is 0 and every consumer has reported, never a second time, and once when
\* all did_finish_task calls of the run have ended.
C7_ReleaseExactlyOnce ==
    \A s \in Stages :
        Consumers(s) # {} =>
            /\ released[s] <= 1
            /\ released[s] >= 1 => (ref_count[s] = 0 /\ Consumers(s) \subseteq reported)
            /\ AllFinishCallsEnded => released[s] = 1

\* C8: no did_finish_task call ends with an error.
C8_FinishNeverRaises ==
    \A t \in Threads : ret[t] \notin {ValueError, IndexError, LockError}

----------------------------------------------------------------------------
(***************************************************************************)
(* TASK: memo.  A worker goes through RunContext.task_memo: it sends       *)
(* enter_task_memo, runs the body of the `with` block with the answer, and *)
(* sends exit_task_memo when the body ends.  store_task_memo is a request  *)
(* of its own.                                                             *)
(***************************************************************************)

\* what the memo requests leave alone
nonMemoVars == <<phase, upstream, stage_state, ref_count, locked, reported,
                 grants, released, stage_of, namesVars, lockVars, lock_state, clientVars>>

\* get_memo_key
get_memo_key(task, cache_keys) == <<stage_of[task], Join(cache_keys)>>

\* the worker holds the answer (success, memo) of enter_task_memo
Body(key, hit, val) == [at |-> "body", key |-> key, hit |-> hit, val |-> val]

\* the locked block of enter_task_memo with the write of WAITING forgotten
EnterMemoLocked_NoMark(t, task, cache_keys) ==
    LET memo_key == get_memo_key(task, cache_keys)
        memo == task_memo[memo_key]
    IN  /\ phase = "running"
        /\ pc[t].at = "idle"
        /\ entered' = [entered EXCEPT ![memo_key] = Bump(@)]
        /\ IF memo = NONE
           THEN /\ misses' = [misses EXCEPT ![memo_key] = Bump(@)]
                /\ pc' = [pc EXCEPT ![t] = Body(memo_key, FALSE, RetNone)]
                /\ ret' = [ret EXCEPT ![t] = "-"]
                /\ UNCHANGED task_memo
           ELSE /\ pc' = [pc EXCEPT ![t] = [at |-> "mwait", key |-> memo_key]]
                /\ ret' = [ret EXCEPT ![t] = "-"]
                /\ UNCHANGED <<task_memo, misses>>
        /\ UNCHANGED <<stored, nonMemoVars>>

\* enter_task_memo, the `with self.task_memo_lock` block and what follows it
\* when the entry read is not WAITING: NONE becomes WAITING and answers
\* (False, None); FAILED raises; a result answers (True, result).
EnterMemoLocked(t, task, cache_keys) ==
    LET memo_key == get_memo_key(task, cache_keys)
        memo == task_memo[memo_key]
    IN  /\ phase = "running"
        /\ pc[t].at = "idle"
        /\ entered' = [entered EXCEPT ![memo_key] = Bump(@)]
        /\ IF memo = NONE
           THEN /\ task_memo' = [task_memo EXCEPT ![memo_key] = WAITING]
                /\ misses' = [misses EXCEPT ![memo_key] = Bump(@)]
                /\ pc' = [pc EXCEPT ![t] = Body(memo_key, FALSE, RetNone)]
                /\ ret' = [ret EXCEPT ![t] = "-"]
           ELSE IF memo = WAITING
           THEN /\ pc' = [pc EXCEPT ![t] = [at |-> "mwait", key |-> memo_key]]
                /\ ret' = [ret EXCEPT ![t] = "-"]
                /\ UNCHANGED <<task_memo, misses>>
           ELSE IF memo = MemoFAILED
           THEN /\ ret' = [ret EXCEPT ![t] = Exception]
                /\ UNCHANGED <<task_memo, misses, pc>>
           ELSE /\ pc' = [pc EXCEPT ![t] = Body(memo_key, TRUE, memo)]
                /\ ret' = [ret EXCEPT ![t] = "-"]
                /\ UNCHANGED <<task_memo, misses>>
        /\ UNCHANGED <<stored, nonMemoVars>>

\* MemoPoll handing a FAILED entry to the caller as if it were a result
MemoPoll_FailedHit(t) ==
    LET memo == task_memo[pc[t].key]
    IN  /\ pc[t].at = "mwait"
        /\ memo # WAITING
        /\ pc' = [pc EXCEPT ![t] = Body(pc[t].key, TRUE, memo)]
        /\ UNCHANGED ret
        /\ UNCHANGED <<memoVars, nonMemoVars>>

\* the polling loop `while memo is MemoState.WAITING`, reading the table
\* without the lock; the read that is not WAITING ends it: FAILED (or another
\* MemoState) raises, a result answers (True, result).
MemoPoll(t) ==
    LET memo == task_memo[pc[t].key]
    IN  /\ pc[t].at = "mwait"
        /\ memo # WAITING
        /\ IF memo \in MemoState
           THEN /\ pc' = [pc EXCEPT ![t] = Idle]
                /\ ret' = [ret EXCEPT ![t] = Exception]
           ELSE /\ pc' = [pc EXCEPT ![t] = Body(pc[t].key, TRUE, memo)]
                /\ UNCHANGED ret
        /\ UNCHANGED <<memoVars, nonMemoVars>>

\* store_task_memo without the check for WAITING
StoreMemo_NoCheck(t, task, cache_keys, value) ==
    LET memo_key == get_memo_key(task, cache_keys)
    IN  /\ phase = "running"
        /\ pc[t].at \in {"idle", "body"}
        /\ task_memo' = [task_memo EXCEPT ![memo_key] = value]
        /\ stored' = [stored EXCEPT ![memo_key] =
                        IF task_memo[memo_key] = WAITING /\ Len(@) < MaxGrants
                        THEN Append(@, value) ELSE @]
        /\ ret' = [ret EXCEPT ![t] = RetNone]
        /\ UNCHANGED <<pc, stage_of, entered, misses, nonMemoVars>>

\* store_task_memo answering success without writing the value
StoreMemo_KeepsWaiting(t, task, cache_keys, value) ==
    LET memo_key == get_memo_key(task, cache_keys)
    IN  /\ phase = "running"
        /\ pc[t].at \in {"idle", "body"}
        /\ ret' = [ret EXCEPT ![t] =
                     IF task_memo[memo_key] # WAITING THEN Exception ELSE RetNone]
        /\ UNCHANGED <<pc, memoVars, nonMemoVars>>

\* store_task_memo: raises unless the entry is WAITING, which it replaces by
\* the result
StoreMemo(t, task, cache_keys, value) ==
    LET memo_key == get_memo_key(task, cache_keys)
    IN  /\ phase = "running"
        /\ pc[t].at \in {"idle", "body"}
        /\ IF task_memo[memo_key] # WAITING
           THEN /\ ret' = [ret EXCEPT ![t] = Exception]
                /\ UNCHANGED <<task_memo, stored>>
           ELSE /\ task_memo' = [task_memo EXCEPT ![memo_key] = value]
                /\ stored' = [stored EXCEPT ![memo_key] =
                                IF Len(@) < MaxGrants THEN Append(@, value) ELSE @]
                /\ ret' = [ret EXCEPT ![t] = RetNone]
        /\ UNCHANGED <<pc, stage_of, entered, misses, nonMemoVars>>

\* the end of the `with run_context.task_memo(...)` block and the
\* exit_task_memo it sends: after an error of the body the entry is set to
\* FAILED and the error goes on; after a normal end the handler raises if the
\* entry still is a MemoState.
ExitMemo(t, success) ==
    LET memo_key == pc[t].key
    IN  /\ pc[t].at = "body"
        /\ IF ~success
           THEN /\ task_memo' = [task_memo EXCEPT ![memo_key] = MemoFAILED]
                /\ ret' = [ret EXCEPT ![t] = Exception]
           ELSE /\ ret' = [ret EXCEPT ![t] =
                             IF task_memo[memo_key] \in MemoState
                             THEN Exception ELSE RetNone]
                /\ UNCHANGED task_memo
        /\ pc' = [pc EXCEPT ![t] = Idle]
        /\ UNCHANGED <<stage_of, entered, misses, stored, nonMemoVars>>

\* a running server for a flow whose tasks alternate between the two
\* stages: tasks of one stage can share a memo key, tasks of different
\* stages never do
InitMemo ==
    /\ Constructed
    /\ WrapperUnused
    /\ phase = "running"
    /\ order = [f \in Flows |-> <<>>]
    /\ upstream = [task \in Tasks |-> {}]
    /\ stage_of = [task \in Tasks |-> IF task % 2 = 0 THEN 0 ELSE 1]
    /\ locked = Stages
    /\ lock_state = [s \in Stages |-> LOCKED]

NextMemo ==
    \/ \E t \in Threads, task \in Tasks, cache_keys \in CacheKeys :
          EnterMemoLocked(t, task, cache_keys)
    \/ \E t \in Threads : MemoPoll(t)
    \/ \E t \in Threads, task \in Tasks, cache_keys \in CacheKeys, value \in Values :
          StoreMemo(t, task, cache_keys, value)
    \/ \E t \in Threads, success \in BOOLEAN : ExitMemo(t, success)

\* workers using the memo concurrently
SpecMemo == InitMemo /\ [][NextMemo]_vars

\* the handler threads go on polling (time.sleep(0.01) returns), and a task
\* that is inside its task_memo scope leaves it, normally or with an error
FairMemo ==
    /\ SpecMemo
    /\ \A t \in Threads : WF_vars(MemoPoll(t))
    /\ \A t \in Threads : WF_vars(\E success \in BOOLEAN : ExitMemo(t, success))

\* C32: an enter_task_memo that found its key WAITING and polls returns a
\* hit or raises in the end, when every task that got a miss leaves its
\* task_memo scope.
C32_WaiterReturns ==
    \A t \in Threads : (pc[t].at = "mwait") ~> (pc[t].at # "mwait")

----------------------------------------------------------------------------
(***************************************************************************)
(* Claims about the task memo (SpecMemo)                                   *)
(***************************************************************************)

\* C9: for every memo key exactly the first enter_task_memo call returns
\* (False, None) and marks the entry WAITING; no later call for the key
\* returns a miss.
C9_FirstEnterIsTheOnlyMiss ==
    \A key \in MemoKeys :
        /\ entered[key] = 0 => (misses[key] = 0 /\ task_memo[key] = NONE)
        /\ entered[key] >= 1 => (misses[key] = 1 /\ task_memo[key] # NONE)

\* a key was entered twice: one miss, and the second caller is waiting
C9_Witness ==
    \E key \in MemoKeys, t \in Threads :
        /\ entered[key] >= 2
        /\ misses[key] = 1
        /\ pc[t].at = "mwait" /\ pc[t].key = key

\* C10: for every memo key at most one transition WAITING -> result occurs,
\* and every enter_task_memo call for the key that returns a hit returns
\* that result.
C10_OneStoreAndHitsReturnIt ==
    \A key \in MemoKeys :
        /\ Len(stored[key]) <= 1
        /\ \A t \in Threads :
              (pc[t].at = "body" /\ pc[t].key = key /\ pc[t].hit) =>
                  (Len(stored[key]) = 1 /\ pc[t].val = stored[key][1])

\* two workers hold a hit for the same key at the same time
C10_Witness ==
    \E key \in MemoKeys, t1, t2 \in Threads :
        /\ t1 # t2
        /\ pc[t1].at = "body" /\ pc[t1].key = key /\ pc[t1].hit
        /\ pc[t2].at = "body" /\ pc[t2].key = key /\ pc[t2].hit

\* C11: a memo entry leaves WAITING once and its terminal value is stable:
\* WAITING is never written over a result or FAILED, an entry that holds a
\* result or FAILED never changes again, and exit_task_memo(success = false)
\* changes an entry only when the entry is WAITING, whether the computing
\* task or a task that received a hit sends it.
C11_TerminalValueStable ==
    [][/\ \A key \in MemoKeys :
             /\ task_memo'[key] = WAITING => task_memo[key] \in {NONE, WAITING}
             /\ task_memo[key] \notin {NONE, WAITING} =>
                    task_memo'[key] = task_memo[key]
       /\ \A t \in Threads :
             (ExitMemo(t, FALSE) /\ task_memo[pc[t].key] # WAITING) =>
                 task_memo' = task_memo]_vars

\* a step in which an enter_task_memo call for the key ends in thread t: out
\* of the locked block or out of the polling loop
EnterMemoEnds(t, key) ==
    \/ /\ \E task \in Tasks, cache_keys \in CacheKeys :
             /\ get_memo_key(task, cache_keys) = key
             /\ EnterMemoLocked(t, task, cache_keys)
       /\ pc'[t].at # "mwait"
    \/ /\ pc[t].at = "mwait"
       /\ pc[t].key = key
       /\ MemoPoll(t)

\* C12: when the computing task (the one that received the miss) reports
\* exit_task_memo(success = false) the entry becomes FAILED; a FAILED entry
\* stays FAILED, and every enter_task_memo call for the key that ends while
\* it is FAILED, one that was waiting as well as a later one, raises: the
\* caller gets neither a hit nor a miss.
C12_FailedKeyRaises ==
    [][/\ \A t \in Threads :
             (pc[t].at = "body" /\ ~pc[t].hit /\ ExitMemo(t, FALSE)) =>
                 task_memo'[pc[t].key] = MemoFAILED
       /\ \A key \in MemoKeys :
             task_memo[key] = MemoFAILED =>
                 /\ task_memo'[key] = MemoFAILED
                 /\ \A t \in Threads :
                       EnterMemoEnds(t, key) =>
                           /\ ret'[t] = Exception
                           /\ pc'[t] = Idle
                           /\ misses'[key] = misses[key]]_vars

\* the computation of a key failed and the entry was read again afterwards:
\* every worker ended with an error, the one miss is the only one
C12_Witness ==
    \E key \in MemoKeys :
        /\ task_memo[key] = MemoFAILED
        /\ entered[key] >= 2
        /\ misses[key] = 1
        /\ stored[key] = <<>>
        /\ \A t \in Threads : pc[t].at = "idle" /\ ret[t] = Exception

\* C13: store_task_memo raises and leaves the whole memo table unchanged
\* whenever the key's entry is not WAITING (NONE, FAILED or a result);
\* otherwise it returns normally and the entry holds the value, the other
\* entries being unchanged.
C13_StoreOnlyOverWaiting ==
    [][\A t \in Threads, task \in Tasks, cache_keys \in CacheKeys, value \in Values :
          StoreMemo(t, task, cache_keys, value) =>
              LET memo_key == get_memo_key(task, cache_keys) IN
              IF task_memo[memo_key] # WAITING
              THEN ret'[t] = Exception /\ task_memo' = task_memo
              ELSE /\ ret'[t] = RetNone
                   /\ task_memo' = [task_memo EXCEPT ![memo_key] = value]]_vars

\* the computing worker stored its result inside the task_memo scope, and a
\* store_task_memo of a worker that never entered the memo was refused
C13_Witness ==
    \E key \in MemoKeys, t1, t2 \in Threads :
        /\ pc[t1].at = "body" /\ pc[t1].key = key /\ ~pc[t1].hit
        /\ ret[t1] = RetNone
        /\ task_memo[key] \in Values
        /\ entered[key] = 1
        /\ \A other \in MemoKeys \ {key} : entered[other] = 0
        /\ pc[t2].at = "idle" /\ ret[t2] = Exception

----------------------------------------------------------------------------
(***************************************************************************)
(* TABLE / BLOB: Names.  add_names and remove_names run as a whole under   *)
(* names_lock (@synchronized); each pass of their loops is a step.         *)
(***************************************************************************)

\* what the names requests leave alone
nonNamesVars == <<phase, upstream, stage_state, ref_count, locked, reported,
                  grants, released, memoVars, ret, lockVars, lock_state, clientVars>>

\* a handler inside add_names or remove_names: the request, the number i of
\* names its loop has handled, the stage's sets when it took the lock, and
\* whether the request directly follows a successful add_names of the same
\* stage and lists
InNames(at, s, tables, blobs, i, undo) ==
    [at |-> at, stage |-> s, tables |-> tables, blobs |-> blobs, i |-> i,
     before_t |-> table_names[s], before_b |-> blob_names[s], undo |-> undo]

\* the duplicates loops reading the sets of every stage
RECURSIVE Duplicates_AnyStage(_, _)
Duplicates_AnyStage(list, registered) ==
    IF list = <<>> THEN <<>>
    ELSE (IF \E s \in Stages : Head(list) \in table_names[s] \cup blob_names[s]
          THEN <<Head(list)>> ELSE <<>>)
         \o Duplicates_AnyStage(Tail(list), registered)

\* the duplicates loops: the names of the list that are in the set, in the
\* order of the list
RECURSIVE Duplicates(_, _)
Duplicates(list, registered) ==
    IF list = <<>> THEN <<>>
    ELSE (IF Head(list) \in registered THEN <<Head(list)>> ELSE <<>>)
         \o Duplicates(Tail(list), registered)

\* add_names that goes on to its insert loops without holding names_lock
AddNames_NoLock(t, s, tables, blobs) ==
    LET table_duplicates == Duplicates(tables, table_names[s])
        blob_duplicates == Duplicates(blobs, blob_names[s])
    IN  /\ phase = "running"
        /\ pc[t].at = "idle"
        /\ IF table_duplicates # <<>> \/ blob_duplicates # <<>>
           THEN /\ response' = Answer("add_names", s, tables, blobs, RetNone,
                                      RetFalse, table_duplicates, blob_duplicates)
                /\ UNCHANGED pc
           ELSE IF tables = <<>> /\ blobs = <<>>
           THEN /\ response' = Answer("add_names", s, tables, blobs, RetNone,
                                      RetTrue, <<>>, <<>>)
                /\ UNCHANGED pc
           ELSE /\ pc' = [pc EXCEPT ![t] = InNames("add", s, tables, blobs, 0, FALSE)]
                /\ response' = NoResponse
        /\ UNCHANGED <<table_names, blob_names, names_lock, nonNamesVars>>

\* add_names up to its insert loops: take names_lock, collect the duplicates,
\* and answer success = False with them if there are any
AddNames(t, s, tables, blobs) ==
    LET table_duplicates == Duplicates(tables, table_names[s])
        blob_duplicates == Duplicates(blobs, blob_names[s])
    IN  /\ phase = "running"
        /\ pc[t].at = "idle"
        /\ names_lock = 0
        /\ IF table_duplicates # <<>> \/ blob_duplicates # <<>>
           THEN /\ response' = Answer("add_names", s, tables, blobs, RetNone,
                                      RetFalse, table_duplicates, blob_duplicates)
                /\ UNCHANGED <<pc, names_lock>>
           ELSE IF tables = <<>> /\ blobs = <<>>
           THEN /\ response' = Answer("add_names", s, tables, blobs, RetNone,
                                      RetTrue, <<>>, <<>>)
                /\ UNCHANGED <<pc, names_lock>>
           ELSE /\ names_lock' = t
                /\ pc' = [pc EXCEPT ![t] = InNames("add", s, tables, blobs, 0, FALSE)]
                /\ response' = NoResponse
        /\ UNCHANGED <<table_names, blob_names, nonNamesVars>>

\* the end of a names handler: names_lock is released and the answer sent
NamesReturn(t, error, success) ==
    /\ names_lock' = 0
    /\ response' = Answer(pc[t].at \o "_names", pc[t].stage, pc[t].tables,
                          pc[t].blobs, error, success, <<>>, <<>>)
    /\ pc' = [pc EXCEPT ![t] = Idle]

\* one pass of the insert loops of add_names (tables first, then blobs);
\* after the last one the handler answers success = True
AddInsert(t) ==
    LET s == pc[t].stage
        i == pc[t].i
        n == Len(pc[t].tables)
    IN  /\ pc[t].at = "add"
        /\ IF i < n
           THEN /\ table_names' = [table_names EXCEPT ![s] = @ \cup {pc[t].tables[i + 1]}]
                /\ UNCHANGED blob_names
           ELSE /\ blob_names' = [blob_names EXCEPT ![s] = @ \cup {pc[t].blobs[i + 1 - n]}]
                /\ UNCHANGED table_names
        /\ IF i + 1 = n + Len(pc[t].blobs)
           THEN NamesReturn(t, RetNone, RetTrue)
           ELSE /\ pc' = [pc EXCEPT ![t].i = i + 1]
                /\ UNCHANGED <<names_lock, response>>
        /\ UNCHANGED nonNamesVars

\* remove_names up to its loops: take names_lock.  The request undoes an
\* add_names when the request answered last is that add_names, of the same
\* stage and lists, answered with success = True.
RemoveNames(t, s, tables, blobs) ==
    /\ phase = "running"
    /\ pc[t].at = "idle"
    /\ names_lock = 0
    /\ IF tables = <<>> /\ blobs = <<>>
       THEN /\ response' = Answer("remove_names", s, tables, blobs, RetNone,
                                  RetNone, <<>>, <<>>)
            /\ UNCHANGED <<pc, names_lock>>
       ELSE /\ names_lock' = t
            /\ pc' = [pc EXCEPT ![t] =
                        InNames("remove", s, tables, blobs, 0,
                                response = Answer("add_names", s, tables, blobs,
                                                  RetNone, RetTrue, <<>>, <<>>))]
            /\ response' = NoResponse
    /\ UNCHANGED <<table_names, blob_names, nonNamesVars>>

\* one pass of the loops of remove_names: set.remove(name) raises KeyError
\* for a name that is not in the set, which ends the handler; after the last
\* pass the handler returns None
RemoveStep(t) ==
    LET s == pc[t].stage
        i == pc[t].i
        n == Len(pc[t].tables)
        name == IF i < n THEN pc[t].tables[i + 1] ELSE pc[t].blobs[i + 1 - n]
        registered == IF i < n THEN table_names[s] ELSE blob_names[s]
    IN  /\ pc[t].at = "remove"
        /\ IF name \notin registered
           THEN /\ NamesReturn(t, KeyError, RetNone)
                /\ UNCHANGED <<table_names, blob_names>>
           ELSE /\ IF i < n
                   THEN /\ table_names' = [table_names EXCEPT ![s] = @ \ {name}]
                        /\ UNCHANGED blob_names
                   ELSE /\ blob_names' = [blob_names EXCEPT ![s] = @ \ {name}]
                        /\ UNCHANGED table_names
                /\ IF i + 1 = n + Len(pc[t].blobs)
                   THEN NamesReturn(t, RetNone, RetNone)
                   ELSE /\ pc' = [pc EXCEPT ![t].i = i + 1]
                        /\ UNCHANGED <<names_lock, response>>
        /\ UNCHANGED nonNamesVars

\* a running server whose workers reserve and give back names
InitNames ==
    /\ Constructed
    /\ WrapperUnused
    /\ phase = "running"
    /\ order = [f \in Flows |-> <<>>]
    /\ upstream = [task \in Tasks |-> {}]
    /\ stage_of = [task \in Tasks |-> 0]
    /\ locked = Stages
    /\ lock_state = [s \in Stages |-> LOCKED]

NextNames ==
    \/ \E t \in Threads, s \in Stages, tables \in TableLists, blobs \in BlobLists :
          AddNames(t, s, tables, blobs)
    \/ \E t \in Threads : AddInsert(t)
    \/ \E t \in Threads, s \in Stages, tables \in TableLists, blobs \in BlobLists :
          RemoveNames(t, s, tables, blobs)
    \/ \E t \in Threads : RemoveStep(t)

\* concurrent add_names and remove_names requests
SpecNames == InitNames /\ [][NextNames]_vars

----------------------------------------------------------------------------
(***************************************************************************)
(* Claims about the name registry (SpecNames)                              *)
(***************************************************************************)

\* a step in which add_names answers out of its duplicates check: the answer
\* names the request
AddAnswers(t) ==
    AddNames(t, response'.stage, response'.tables, response'.blobs)

\* a step in which add_names goes on to its insert loops: the handler state
\* names the request
AddProceeds(t) ==
    /\ pc'[t].at = "add"
    /\ AddNames(t, pc'[t].stage, pc'[t].tables, pc'[t].blobs)

\* C14: add_names(s, T, B) is all-or-nothing under every interleaving of
\* add_names / remove_names requests.  If a name of T is in table_names[s]
\* or a name of B is in blob_names[s], no set changes and exactly those
\* names are answered as duplicates.  Otherwise, from the moment the handler
\* holds the lock until it answers success, no other request takes a step,
\* and at the answer the stage's sets are the ones the handler found plus
\* all names of T and B, the other stages' sets being unchanged.
C14_AddAllOrNothing ==
    [][/\ \A t \in Threads :
             AddAnswers(t) =>
                 LET dt == Elems(response'.tables) \cap table_names[response'.stage]
                     db == Elems(response'.blobs) \cap blob_names[response'.stage]
                 IN  /\ table_names' = table_names /\ blob_names' = blob_names
                     /\ IF dt # {} \/ db # {}
                        THEN /\ response'.success = RetFalse
                             /\ Elems(response'.table_duplicates) = dt
                             /\ Elems(response'.blob_duplicates) = db
                        ELSE /\ response'.tables = <<>> /\ response'.blobs = <<>>
                             /\ response'.success = RetTrue
       /\ \A t \in Threads :
             AddProceeds(t) =>
                 /\ table_names' = table_names /\ blob_names' = blob_names
                 /\ Elems(pc'[t].tables) \cap table_names[pc'[t].stage] = {}
                 /\ Elems(pc'[t].blobs) \cap blob_names[pc'[t].stage] = {}
       /\ \A t \in Threads :
             pc[t].at = "add" =>
                 /\ \A t2 \in Threads \ {t} : pc'[t2] = pc[t2]
                 /\ pc'[t].at = "idle" =>
                        /\ response'.success = RetTrue
                        /\ table_names' = [table_names EXCEPT ![pc[t].stage] =
                                             pc[t].before_t \cup Elems(pc[t].tables)]
                        /\ blob_names' = [blob_names EXCEPT ![pc[t].stage] =
                                            pc[t].before_b \cup Elems(pc[t].blobs)]
                 /\ pc'[t].at # "idle" => response' = NoResponse]_vars

\* a request with a registered table, a registered blob and a free table
\* name was refused: both duplicates are named, the free name is not inserted
C14_Witness ==
    /\ names_lock = 0
    /\ response.op = "add_names"
    /\ response.success = RetFalse
    /\ response.table_duplicates # <<>>
    /\ response.blob_duplicates # <<>>
    /\ \E n \in Elems(response.tables) : n \notin table_names[response.stage]

\* C15: while a name is registered in (stage, kind), every add_names with
\* that name in that stage and kind is answered success = False with the
\* name among the duplicates and leaves all sets as they are; a registered
\* name leaves its set only through a remove_names of that stage naming it;
\* a request none of whose names is registered in its own stage and kind is
\* not refused (names of another stage or of the other kind do not count),
\* and an insert changes the set of its stage and kind only.
C15_RegisteredNameRejected ==
    [][/\ \A t \in Threads :
             AddAnswers(t) =>
                 LET dt == Elems(response'.tables) \cap table_names[response'.stage]
                     db == Elems(response'.blobs) \cap blob_names[response'.stage]
                 IN  /\ (dt # {} \/ db # {}) =>
                            /\ response'.success = RetFalse
                            /\ dt \subseteq Elems(response'.table_duplicates)
                            /\ db \subseteq Elems(response'.blob_duplicates)
                            /\ table_names' = table_names /\ blob_names' = blob_names
                     /\ (dt = {} /\ db = {}) => response'.success # RetFalse
       /\ \A t \in Threads :
             AddProceeds(t) =>
                 /\ Elems(pc'[t].tables) \cap table_names[pc'[t].stage] = {}
                 /\ Elems(pc'[t].blobs) \cap blob_names[pc'[t].stage] = {}
       /\ \A s \in Stages, n \in TableNames :
             (n \in table_names[s] /\ n \notin table_names'[s]) =>
                 \E t \in Threads : /\ pc[t].at = "remove" /\ pc[t].stage = s
                                    /\ n \in Elems(pc[t].tables)
       /\ \A s \in Stages, n \in BlobNames :
             (n \in blob_names[s] /\ n \notin blob_names'[s]) =>
                 \E t \in Threads : /\ pc[t].at = "remove" /\ pc[t].stage = s
                                    /\ n \in Elems(pc[t].blobs)
       /\ \A t \in Threads :
             AddInsert(t) =>
                 /\ \A o \in Stages \ {pc[t].stage} :
                       table_names'[o] = table_names[o] /\ blob_names'[o] = blob_names[o]
                 /\ \/ blob_names' = blob_names
                    \/ table_names' = table_names]_vars

\* the name "t" is registered as a table in two stages and as a blob, and
\* the request answered last, for a table "t", was refused
C15_Witness ==
    /\ \A s \in Stages : "t" \in table_names[s]
    /\ "t" \in blob_names[response.stage]
    /\ response.op = "add_names"
    /\ response.success = RetFalse
    /\ response.table_duplicates = <<"t">>
    /\ response.blob_duplicates = <<>>

\* a name occurs more than once in the list
HasRepeat(list) == \E i, j \in 1..Len(list) : i < j /\ list[i] = list[j]

\* C16: every add_names request in which a name would be registered twice
\* in the same (stage, kind), because it is registered already or because it
\* occurs twice in the request's table list or blob list, is answered
\* success = False and inserts nothing.
C16_NeverDedupes ==
    [][\A t \in Threads :
          /\ AddAnswers(t) =>
                 ((\/ Elems(response'.tables) \cap table_names[response'.stage] # {}
                   \/ Elems(response'.blobs) \cap blob_names[response'.stage] # {}
                   \/ HasRepeat(response'.tables)
                   \/ HasRepeat(response'.blobs)) =>
                      /\ response'.success = RetFalse
                      /\ table_names' = table_names /\ blob_names' = blob_names)
          /\ AddProceeds(t) =>
                 /\ Elems(pc'[t].tables) \cap table_names[pc'[t].stage] = {}
                 /\ Elems(pc'[t].blobs) \cap blob_names[pc'[t].stage] = {}
                 /\ ~HasRepeat(pc'[t].tables)
                 /\ ~HasRepeat(pc'[t].blobs)]_vars

\* C17: a remove_names(s, T, B) that directly follows a successful
\* add_names(s, T, B) leaves table_names[s] and blob_names[s] as they were
\* before the add (the sets it found, without the names of T and B) and
\* leaves the other stages' sets unchanged.
C17_RemoveUndoesAdd ==
    [][\A t \in Threads :
          (/\ pc[t].at = "remove"
           /\ pc[t].undo
           /\ RemoveStep(t)
           /\ pc'[t].at = "idle") =>
              /\ table_names' = [table_names EXCEPT ![pc[t].stage] =
                                   pc[t].before_t \ Elems(pc[t].tables)]
              /\ blob_names' = [blob_names EXCEPT ![pc[t].stage] =
                                  pc[t].before_b \ Elems(pc[t].blobs)]]_vars

\* C34: a remove_names that ends with KeyError, because a requested name is
\* not registered in the stage, leaves the table names and the blob names
\* of the stage as they were when it began.
C34_RemoveFailsWhole ==
    [][\A t \in Threads :
          (/\ pc[t].at = "remove"
           /\ pc'[t].at = "idle"
           /\ response'.error = KeyError) =>
              /\ table_names'[pc[t].stage] = pc[t].before_t
              /\ blob_names'[pc[t].stage] = pc[t].before_b]_vars

----------------------------------------------------------------------------
(***************************************************************************)
(* LOCKING at the start and the end of a run.  Every flow has a run server *)
(* of its own; the lock manager gives a lock to one flow at a time,        *)
(* acquire blocks while another flow holds the lock or fails with          *)
(* LockError.                                                              *)
(***************************************************************************)

\* what the run servers' __enter__ and __exit__ leave alone
nonLockVars == <<phase, upstream, stage_state, ref_count, locked, lock_state, pc,
                 ret, reported, grants, released, memoVars, namesVars, uncertain, clientVars>>

\* __enter__ up to `with self.lock_manager("_pipedag_setup_")`: the server
\* asks for the setup lock
StartEnter(f) ==
    /\ srv[f].at = "constructed"
    /\ srv' = [srv EXCEPT ![f].at = "setup_wait"]
    /\ UNCHANGED <<order, setup_lock, stage_lock, issued, nonLockVars>>

\* __enter__ going on to its acquire loop without the setup lock
TakeSetup_NoLock(f) ==
    /\ srv[f].at = "setup_wait"
    /\ srv' = [srv EXCEPT ![f].at = "acquire"]
    /\ UNCHANGED <<order, setup_lock, stage_lock, issued, nonLockVars>>

\* the setup lock is free and given to the server
TakeSetup(f) ==
    /\ srv[f].at = "setup_wait"
    /\ setup_lock = 0
    /\ setup_lock' = f
    /\ srv' = [srv EXCEPT ![f].at = "acquire"]
    /\ UNCHANGED <<order, stage_lock, issued, nonLockVars>>

\* the lock the acquire loop asks for next
NextLock(f) == order[f][srv[f].i + 1]

\* one pass of `for stage in self.stages: self.lock_manager.acquire(stage)`:
\* the lock is free and taken, or acquire fails; the error leaves the `with`
\* block, which releases the setup lock, and leaves __enter__
AcquireStage(f, outcome) ==
    /\ srv[f].at = "acquire"
    /\ srv[f].i < Len(order[f])
    /\ IF outcome = "ok"
       THEN /\ stage_lock[NextLock(f)] = 0
            /\ stage_lock' = [stage_lock EXCEPT ![NextLock(f)] = f]
            /\ srv' = [srv EXCEPT ![f].i = @ + 1]
            /\ UNCHANGED setup_lock
       ELSE /\ srv' = [srv EXCEPT ![f].at = "enter_failed"]
            /\ setup_lock' = IF setup_lock = f THEN 0 ELSE setup_lock
            /\ UNCHANGED stage_lock
    /\ UNCHANGED <<order, issued, nonLockVars>>

\* the end of the `with` block and of __enter__: the setup lock is released,
\* the run begins
LeaveSetup(f) ==
    /\ srv[f].at = "acquire"
    /\ srv[f].i = Len(order[f])
    /\ setup_lock' = IF setup_lock = f THEN 0 ELSE setup_lock
    /\ srv' = [srv EXCEPT ![f].at = "running"]
    /\ UNCHANGED <<order, stage_lock, issued, nonLockVars>>

\* during the run did_finish_task releases the lock of a stage whose
\* reference counter reached 0
RunRelease(f, l) ==
    /\ srv[f].at = "running"
    /\ stage_lock[l] = f
    /\ stage_lock' = [stage_lock EXCEPT ![l] = 0]
    /\ UNCHANGED <<order, srv, setup_lock, issued, nonLockVars>>

\* list(self.lock_manager.lock_states.items()): the locks the flow holds
RECURSIVE HeldLocks(_, _)
HeldLocks(f, list) ==
    IF list = <<>> THEN <<>>
    ELSE (IF stage_lock[Head(list)] = f THEN <<Head(list)>> ELSE <<>>)
         \o HeldLocks(f, Tail(list))

\* __exit__, after the run ended normally or with an error:
\* _release_all_locks lists the held locks
ExitStart(f) ==
    /\ srv[f].at = "running"
    /\ srv' = [srv EXCEPT ![f] =
                 IF HeldLocks(f, order[f]) = <<>>
                 THEN [@ EXCEPT !.at = "exited"]
                 ELSE [@ EXCEPT !.at = "exit", !.todo = HeldLocks(f, order[f])]]
    /\ UNCHANGED <<order, setup_lock, stage_lock, issued, nonLockVars>>

\* one pass of `for lock, state in locks: self.lock_manager.release(lock)`; an
\* error of release leaves the loop and __exit__
ExitRelease(f, outcome) ==
    /\ srv[f].at = "exit"
    /\ issued' = [issued EXCEPT ![f] = @ \cup {Head(srv[f].todo)}]
    /\ IF outcome = "ok"
       THEN /\ stage_lock' = [stage_lock EXCEPT ![Head(srv[f].todo)] = 0]
            /\ srv' = [srv EXCEPT ![f].todo = Tail(@),
                                  ![f].at = IF Tail(srv[f].todo) = <<>>
                                            THEN "exited" ELSE "exit"]
       ELSE /\ srv' = [srv EXCEPT ![f].at = "exit_failed"]
            /\ UNCHANGED stage_lock
    /\ UNCHANGED <<order, setup_lock, nonLockVars>>

\* flows with any stage lists, their run servers constructed
InitLock ==
    /\ Constructed
    /\ WrapperUnused
    /\ phase = "constructed"
    /\ upstream = [task \in Tasks |-> {}]
    /\ stage_of = [task \in Tasks |-> 0]
    /\ locked = {}
    /\ lock_state = [s \in Stages |-> UNLOCKED]
    /\ order \in [Flows -> StageLists]

NextLockStep ==
    \/ \E f \in Flows : StartEnter(f)
    \/ \E f \in Flows : TakeSetup(f)
    \/ \E f \in Flows, outcome \in ReleaseOutcomes : AcquireStage(f, outcome)
    \/ \E f \in Flows : LeaveSetup(f)
    \/ \E f \in Flows, l \in LockNames : RunRelease(f, l)
    \/ \E f \in Flows : ExitStart(f)
    \/ \E f \in Flows, outcome \in ReleaseOutcomes : ExitRelease(f, outcome)

\* flows that start, run and end concurrently
SpecLock == InitLock /\ [][NextLockStep]_vars

----------------------------------------------------------------------------
(***************************************************************************)
(* Claims about the locks of a run (SpecLock)                              *)
(***************************************************************************)

\* flow f is blocked in an acquire of a lock that flow g holds
WaitsFor(f, g) ==
    \/ srv[f].at = "setup_wait" /\ setup_lock = g
    \/ /\ srv[f].at = "acquire"
       /\ srv[f].i < Len(order[f])
       /\ stage_lock[NextLock(f)] = g

\* C18: flows that start concurrently over overlapping stage sets never
\* deadlock each other: at most one flow is in its acquire loop at any time
\* (it holds the setup lock), a lock has one holder, and there is no set of
\* flows each of which waits for a lock held by a flow of the set.
C18_NoStartDeadlock ==
    /\ Cardinality({f \in Flows : srv[f].at = "acquire"}) <= 1
    /\ \A f \in Flows : srv[f].at = "acquire" => setup_lock = f
    /\ \A waiting \in SUBSET Flows \ {{}} :
          \E f \in waiting : \A g \in waiting : ~WaitsFor(f, g)

\* a flow in its acquire loop holds its first lock and waits for its second
\* one, which a running flow holds that locked the same two stages in the
\* opposite order
C18_Witness ==
    \E f, g \in Flows :
        /\ f # g
        /\ Len(order[f]) = 2 /\ Len(order[g]) = 2
        /\ order[f][1] = order[g][2]
        /\ srv[f].at = "acquire" /\ srv[f].i = 1
        /\ srv[g].at = "running"
        /\ WaitsFor(f, g)

\* the run of a flow has ended: __exit__ returned or raised, or __enter__
\* raised
Ended(f) == srv[f].at \in {"exited", "exit_failed", "enter_failed"}

\* C19: whenever a run has ended (normally, through an error inside the run,
\* or through an error during setup after stage locks were acquired), the
\* server has called release for every lock it still holds.
C19_EndReleasesHeldLocks ==
    \A f \in Flows :
        Ended(f) => \A l \in LockNames : stage_lock[l] = f => l \in issued[f]

----------------------------------------------------------------------------
(***************************************************************************)
(* LOCKING: validate_stage_lock.  The lock manager changes the state of a  *)
(* held lock on its own: LOCKED becomes UNCERTAIN (a lease could not be    *)
(* renewed), UNCERTAIN resolves to LOCKED or INVALID, a release makes it   *)
(* UNLOCKED.                                                               *)
(***************************************************************************)

\* what validate_stage_lock and the lock manager leave alone
nonValidateVars == <<phase, upstream, stage_state, ref_count, locked, reported,
                     grants, released, memoVars, namesVars, order, srv,
                     setup_lock, stage_lock, issued, clientVars>>

\* validate_stage_lock up to its loop
ValidateStart(t, s) ==
    /\ phase = "running"
    /\ pc[t].at = "idle"
    /\ pc' = [pc EXCEPT ![t] = [at |-> "validate", stage |-> s, did_log |-> FALSE]]
    /\ ret' = [ret EXCEPT ![t] = "-"]
    /\ UNCHANGED <<lock_state, uncertain, nonValidateVars>>

\* ValidatePoll taking UNCERTAIN for LOCKED
ValidatePoll_UncertainReturns(t) ==
    LET state == lock_state[pc[t].stage]
    IN  /\ pc[t].at = "validate"
        /\ pc' = [pc EXCEPT ![t] = Idle]
        /\ ret' = [ret EXCEPT ![t] =
                     IF state \in {LOCKED, UNCERTAIN} THEN RetNone ELSE LockError]
        /\ UNCHANGED <<lock_state, uncertain, nonValidateVars>>

\* one pass of the `while True` loop: get_lock_state, then return for LOCKED,
\* LockError for UNLOCKED and INVALID, and another pass (after the first one
\* has logged) for UNCERTAIN
ValidatePoll(t) ==
    LET state == lock_state[pc[t].stage]
    IN  /\ pc[t].at = "validate"
        /\ IF state = LOCKED
           THEN /\ pc' = [pc EXCEPT ![t] = Idle]
                /\ ret' = [ret EXCEPT ![t] = RetNone]
           ELSE IF state \in {UNLOCKED, INVALID}
           THEN /\ pc' = [pc EXCEPT ![t] = Idle]
                /\ ret' = [ret EXCEPT ![t] = LockError]
           ELSE /\ pc' = [pc EXCEPT ![t].did_log = TRUE]
                /\ UNCHANGED ret
        /\ UNCHANGED <<lock_state, uncertain, nonValidateVars>>

\* the lock manager loses track of a held lock
BecomeUncertain(s) ==
    /\ lock_state[s] = LOCKED
    /\ uncertain < MaxUncertain
    /\ lock_state' = [lock_state EXCEPT ![s] = UNCERTAIN]
    /\ uncertain' = uncertain + 1
    /\ UNCHANGED <<pc, ret, nonValidateVars>>

\* UNCERTAIN resolves to LOCKED or to INVALID
Resolve(s, state) ==
    /\ lock_state[s] = UNCERTAIN
    /\ lock_state' = [lock_state EXCEPT ![s] = state]
    /\ UNCHANGED <<pc, ret, uncertain, nonValidateVars>>

\* the lock of the stage is released while the run goes on (did_finish_task)
LockReleased(s) ==
    /\ lock_state[s] = LOCKED
    /\ lock_state' = [lock_state EXCEPT ![s] = UNLOCKED]
    /\ UNCHANGED <<pc, ret, uncertain, nonValidateVars>>

\* a running server that holds the locks of all its stages
InitValidate ==
    /\ Constructed
    /\ WrapperUnused
    /\ phase = "running"
    /\ order = [f \in Flows |-> <<>>]
    /\ upstream = [task \in Tasks |-> {}]
    /\ stage_of = [task \in Tasks |-> 0]
    /\ locked = Stages
    /\ lock_state = [s \in Stages |-> LOCKED]

NextValidate ==
    \/ \E t \in Threads, s \in Stages : ValidateStart(t, s)
    \/ \E t \in Threads : ValidatePoll(t)
    \/ \E s \in Stages : BecomeUncertain(s)
    \/ \E s \in Stages, state \in {LOCKED, INVALID} : Resolve(s, state)
    \/ \E s \in Stages : LockReleased(s)

SpecValidate == InitValidate /\ [][NextValidate]_vars

\* the polling loop keeps running (it sleeps 10 ms between passes), and the
\* lock manager resolves every UNCERTAIN state
FairValidate ==
    /\ SpecValidate
    /\ \A t \in Threads : WF_vars(ValidatePoll(t))
    /\ \A s \in Stages : WF_vars(\E state \in {LOCKED, INVALID} : Resolve(s, state))

\* C20: validate_stage_lock returns normally only on a pass that reads
\* LOCKED, raises LockError on a pass that reads UNLOCKED or INVALID, and
\* neither returns nor raises on a pass that reads UNCERTAIN; every call
\* ends once the state has resolved.
C20_ValidateFollowsLockState ==
    /\ [][\A t \in Threads :
             ValidatePoll(t) =>
                 LET state == lock_state[pc[t].stage]
                 IN  /\ state = LOCKED => (pc'[t] = Idle /\ ret'[t] = RetNone)
                     /\ state \in {UNLOCKED, INVALID} =>
                            (pc'[t] = Idle /\ ret'[t] = LockError)
                     /\ state = UNCERTAIN =>
                            (pc'[t].at = "validate" /\ ret'[t] = ret[t])]_vars
    /\ \A t \in Threads : (pc[t].at = "validate") ~> (pc[t].at = "idle")

\* a call that went through a pass with the state UNCERTAIN finds the lock
\* LOCKED again, while another call has ended with LockError
C20_Witness ==
    \E t1, t2 \in Threads :
        /\ pc[t1].at = "validate" /\ pc[t1].did_log
        /\ lock_state[pc[t1].stage] = LOCKED
        /\ pc[t2].at = "idle" /\ ret[t2] = LockError


----------------------------------------------------------------------------
(***************************************************************************)
(* RPC: RunContext._request on the worker's side, handle_request on the    *)
(* server's side.  Worker t's request is handled by server thread t.       *)
(***************************************************************************)

\* what a request and its answer leave alone
nonRpcVars == <<phase, upstream, ref_count, locked, lock_state, reported,
                released, memoVars, namesVars, lockVars, wrapperVars,
                ctxVars, mutexVars, condVars>>

\* RunContext._request, first half: self.client.request([op, args]) puts the
\* request on the wire and blocks
Send(t, op, s, success) ==
    /\ phase = "running"
    /\ call[t].at = "ready"
    /\ call' = [call EXCEPT ![t] = [at |-> "sent", op |-> op, stage |-> s,
                                    success |-> success,
                                    failed_before |-> failures]]
    /\ ret' = [ret EXCEPT ![t] = "-"]
    /\ got' = [got EXCEPT ![t] = NoGot]
    /\ UNCHANGED <<pc, stage_state, grants, wire, failures, nonRpcVars>>

\* handle_request up to the end of the operation's first block:
\* getattr(self, op_name) raises AttributeError for a name the server does
\* not have, a data attribute is not callable (TypeError), and a stage
\* operation is called with the arguments of the request
Serve(t) ==
    /\ call[t].at = "sent"
    /\ pc[t].at = "idle"
    /\ ret[t] = "-"
    /\ LET op == call[t].op
           s == call[t].stage
       IN  IF op \notin StageOps
           THEN /\ ret' = [ret EXCEPT ![t] =
                             IF op = "stage_state" THEN TypeError ELSE AttributeError]
                /\ UNCHANGED <<pc, stage_state, grants, refVars>>
           ELSE IF op = EnterOp(KindOf(op))
           THEN EnterLocked(t, s, KindOf(op))
           ELSE Exit(t, s, KindOf(op), call[t].success)

\* HandleRequest returning every outcome as a result
HandleRequest_ErrorAsResult(outcome) ==
    [error |-> Null, result |-> outcome]

\* handle_request's two returns: [None, result] after the operation returned,
\* [pickled_exception, None] after it raised
HandleRequest(outcome) ==
    IF outcome \in Exceptions
    THEN [error |-> PickleDumps(outcome), result |-> RetNone]
    ELSE [error |-> Null, result |-> outcome]

\* the response of a finished operation goes on the wire
Respond(t) ==
    /\ call[t].at = "sent"
    /\ pc[t].at = "idle"
    /\ ret[t] # "-"
    /\ wire' = [wire EXCEPT ![t] = HandleRequest(ret[t])]
    /\ call' = [call EXCEPT ![t].at = "answered"]
    /\ failures' = IF wire'[t].error # Null THEN 1 ELSE failures
    /\ UNCHANGED <<pc, ret, stage_state, grants, got, scope, nonRpcVars>>

\* RunContext._request, second half: raise RemoteProcessError from the
\* decoded error, or return the result
Receive(t) ==
    /\ call[t].at = "answered"
    /\ got' = [got EXCEPT ![t] =
                 IF wire[t].error # Null
                 THEN [value |-> "-", raised |-> RemoteProcessError,
                       cause |-> PickleLoads(wire[t].error)]
                 ELSE [value |-> wire[t].result, raised |-> "-", cause |-> "-"]]
    /\ call' = [call EXCEPT ![t] = NoCall]
    /\ wire' = [wire EXCEPT ![t] = NoWire]
    /\ UNCHANGED <<pc, ret, stage_state, grants, scope, failures, nonRpcVars>>

\* the stage ids and op names in the requests of the workers
RpcStages == {0}
RpcOps == {"enter_init_stage", "exit_init_stage", "stage_state", "no_such_op"}

\* a worker sends any request
RpcSend(t, op, s, success) ==
    /\ Send(t, op, s, success)
    /\ UNCHANGED scope

NextRpc ==
    \/ \E t \in Threads, op \in RpcOps, s \in RpcStages, success \in BOOLEAN :
          /\ success => op = "exit_init_stage"
          /\ RpcSend(t, op, s, success)
    \/ \E t \in Threads : Serve(t)
    \/ \E t \in Threads : EnterWait(t)
    \/ \E t \in Threads : EnterCheck(t)
    \/ \E t \in Threads : Respond(t)
    \/ \E t \in Threads : Receive(t)

\* workers sending requests of any op name in any order
SpecRpc == InitStage /\ [][NextRpc]_vars

\* C21: the response of every request carries an error exactly when the
\* operation raised (an unknown or non-callable op name included), and then
\* the pickled exception; _request raises RemoteProcessError with that
\* exception as cause exactly in that case and returns the operation's
\* result otherwise; whatever failed before, the server goes on handling
\* the requests it is sent.
C21_ErrorIffRaised ==
    [][\A t \in Threads :
             /\ Respond(t) =>
                    /\ (wire'[t].error # Null) <=> (ret[t] \in Exceptions)
                    /\ wire'[t].error # Null =>
                           /\ PickleLoads(wire'[t].error) = ret[t]
                           /\ wire'[t].result = RetNone
                    /\ wire'[t].error = Null => wire'[t].result = ret[t]
             /\ Receive(t) =>
                    IF ret[t] \in Exceptions
                    THEN got'[t] = [value |-> "-", raised |-> RemoteProcessError,
                                    cause |-> ret[t]]
                    ELSE got'[t] = [value |-> ret[t], raised |-> "-",
                                    cause |-> "-"]]_vars

\* after a request with an unknown op name failed, a request sent later is
\* answered with the result True
C21_Witness ==
    \E t1, t2 \in Threads :
        /\ got[t1].raised = RemoteProcessError /\ got[t1].cause = AttributeError
        /\ call[t2].at = "answered" /\ call[t2].failed_before = 1
        /\ call[t2].op = "enter_init_stage"
        /\ wire[t2] = [error |-> Null, result |-> RetTrue]


----------------------------------------------------------------------------
(***************************************************************************)
(* STAGE LIFECYCLE COORDINATOR: the scopes RunContext.init_stage and       *)
(* RunContext.commit_stage (context managers around a body of task code).  *)
(***************************************************************************)

\* how the body of a scope can end: normally or with an exception
BodyOutcomes == {"ok", Exception}

\* `can_continue = self._request("enter_*_stage", stage.id)`: the request is
\* sent
ScopeEnter(t, s, k) ==
    /\ scope[t].at = "out"
    /\ Send(t, EnterOp(k), s, FALSE)
    /\ scope' = [scope EXCEPT ![t] =
                   [NoScope EXCEPT !.at = "entering", !.stage = s, !.kind = k]]

\* the enter request has been answered: _request raises RemoteProcessError
\* out of the scope, or the scope yields True for a true can_continue and
\* False for any other result (`if not can_continue`)
ScopeYield(t) ==
    /\ scope[t].at = "entering"
    /\ call[t].at = "ready"
    /\ scope' = [scope EXCEPT ![t] =
                   IF got[t].raised # "-"
                   THEN [@ EXCEPT !.at = "out", !.outcome = got[t].raised,
                                  !.cause = got[t].cause]
                   ELSE [@ EXCEPT !.at = "body",
                                  !.yielded = IF got[t].value = RetTrue
                                               THEN RetTrue ELSE RetFalse]]
    /\ UNCHANGED <<pc, ret, stage_state, grants, call, wire, got, failures,
                   nonRpcVars>>

\* BodyEnds sending the exit request whatever the scope yielded
BodyEnds_AlwaysExits(t, body) ==
    /\ scope[t].at = "body"
    /\ Send(t, ExitOp(scope[t].kind), scope[t].stage, body = "ok")
    /\ scope' = [scope EXCEPT ![t].at = "exiting", ![t].body = body,
                              ![t].exits = Append(@, body = "ok")]

\* the body ends.  After `yield False` the generator returns (or the body's
\* exception passes through it); after `yield True` the matching exit
\* request is sent, with success=False from the except branch and
\* success=True from the else branch
BodyEnds(t, body) ==
    /\ scope[t].at = "body"
    /\ IF scope[t].yielded = RetTrue
       THEN /\ Send(t, ExitOp(scope[t].kind), scope[t].stage, body = "ok")
            /\ scope' = [scope EXCEPT ![t].at = "exiting", ![t].body = body,
                                      ![t].exits = Append(@, body = "ok")]
       ELSE /\ scope' = [scope EXCEPT ![t].at = "out", ![t].body = body,
                                      ![t].outcome = body]
            /\ UNCHANGED <<pc, ret, stage_state, grants, call, wire, got,
                           failures, nonRpcVars>>

\* the exit request has been answered: _request raises RemoteProcessError,
\* else the except branch raises `StageError from e` and the else branch
\* ends normally
ScopeExit(t) ==
    /\ scope[t].at = "exiting"
    /\ call[t].at = "ready"
    /\ scope' = [scope EXCEPT ![t] =
                   IF got[t].raised # "-"
                   THEN [@ EXCEPT !.at = "out", !.outcome = got[t].raised,
                                  !.cause = got[t].cause]
                   ELSE IF scope[t].body # "ok"
                   THEN [@ EXCEPT !.at = "out", !.outcome = StageError,
                                  !.cause = scope[t].body]
                   ELSE [@ EXCEPT !.at = "out", !.outcome = "ok"]]
    /\ UNCHANGED <<pc, ret, stage_state, grants, call, wire, got, failures,
                   nonRpcVars>>

NextScope ==
    \/ \E t \in Threads, s \in RpcStages, k \in Kinds : ScopeEnter(t, s, k)
    \/ \E t \in Threads : Serve(t)
    \/ \E t \in Threads : EnterWait(t)
    \/ \E t \in Threads : EnterCheck(t)
    \/ \E t \in Threads : Respond(t)
    \/ \E t \in Threads : Receive(t)
    \/ \E t \in Threads : ScopeYield(t)
    \/ \E t \in Threads, body \in BodyOutcomes : BodyEnds(t, body)
    \/ \E t \in Threads : ScopeExit(t)

\* workers that drive the stage transitions through the two scopes only
SpecScope == InitStage /\ [][NextScope]_vars

\* C22: a scope that ends because a peer's transition of the stage failed
\* (its enter request found or came to see the stage FAILED) hands a
\* StageError to the task code.
C22_PeerFailureIsStageError ==
    \A t \in Threads :
        (scope[t].at = "out" /\ scope[t].yielded = "-" /\ scope[t].outcome # "-")
            => scope[t].outcome = StageError

\* C23: a scope that yielded True has sent exactly one exit request when it
\* ends, success=True after a body that ended normally (and the scope ends
\* normally), success=False after a body that raised (and the scope raises
\* StageError); a scope that yielded False sends no request at all, and the
\* enter request it was answered did not change the stage state.
C23_OneMatchingExit ==
    /\ [](\A t \in Threads :
            /\ (scope[t].at = "out" /\ scope[t].yielded = RetTrue) =>
                   /\ Len(scope[t].exits) = 1
                   /\ scope[t].body = "ok" =>
                          (scope[t].exits[1] = TRUE /\ scope[t].outcome = "ok")
                   /\ scope[t].body # "ok" =>
                          (scope[t].exits[1] = FALSE /\ scope[t].outcome = StageError)
            /\ scope[t].yielded = RetFalse =>
                   /\ scope[t].exits = <<>>
                   /\ call[t] = NoCall)
    /\ [][\A t \in Threads :
             (call[t].at = "sent" /\ call'[t].at = "sent" /\ ret[t] # ret'[t]
                /\ ret'[t] \in {RetFalse, RetNone}
                /\ call[t].op = EnterOp(KindOf(call[t].op)))
                 => stage_state' = stage_state]_vars

\* after the init scopes of a stage ended (one of them had yielded False),
\* a commit scope of the stage yielded True, its body raised, and it ended
\* with StageError after one exit request with success=False
C23_Witness ==
    \E t1, t2 \in Threads :
        /\ t1 # t2
        /\ scope[t1].at = "out" /\ scope[t1].kind = "commit"
        /\ scope[t1].yielded = RetTrue /\ scope[t1].body = Exception
        /\ scope[t1].outcome = StageError /\ scope[t1].exits = <<FALSE>>
        /\ scope[t2].at = "out" /\ scope[t2].kind = "init"
        /\ scope[t2].yielded = RetFalse /\ scope[t2].outcome = "ok"
        /\ scope[t2].stage = scope[t1].stage
        /\ stage_state[scope[t1].stage] = FAILED


----------------------------------------------------------------------------
(***************************************************************************)
(* MATERIALISATION WRAPPER: MaterialisationWrapper.__call__, store_in_memo *)
(* and task_state_handler.  The memo belongs to the wrapper object, which  *)
(* the task definition creates once; the runs of a flow in one process     *)
(* call the same wrapper.                                                  *)
(***************************************************************************)

\* what the wrapper leaves alone
nonWrapperVars == <<phase, upstream, stage_state, ref_count, locked, lock_state,
                    pc, ret, reported, grants, released, memoVars, namesVars,
                    lockVars, call, wire, got, scope, failures, ctxVars,
                    mutexVars, condVars>>

\* the output of the user cache function of a task: out has one, child none
CacheFnOutput(task) == IF task = "out" THEN env.cache_value ELSE "-"

\* what the body of a task returns: child hands its input on, a lazy out
\* returns the lazy value and a non-lazy out the value its cache function
\* reports
BodyValue(task, input) ==
    IF task = "child" THEN input.value
    ELSE IF lazy[task] THEN env.lazy_value
    ELSE env.cache_value

\* the store holds a cached output that is valid for this call: same input,
\* and same cache function output unless the key type leaves it out
CacheValid(task, input) ==
    /\ cache[task].valid
    /\ cache[task].input = input
    /\ \/ GetCacheKeyType(env.ignore_fresh_input) = "tasks_only"
       \/ cache[task].cache_fn = CacheFnOutput(task)

\* how the cache lookup of a call can end
CacheOutcomes == {"hit", "retrieve_error", "copy_error"}

\* __call__ up to its first return: cache key, then under self.__lock the
\* read of the memo and, for _nil, the write of a Condition; a result found
\* is returned as a copy, a Condition found leads into the wait loop, and
\* the caller that wrote the Condition goes on to the cache (not lazy) or
\* to the body (lazy)
WLookup(t, task, input) ==
    LET key == ComputeKey(task, input, CacheFnOutput(task),
                          GetCacheKeyType(env.ignore_fresh_input))
        memo_result == wrapper_memo[key]
        start == [NoCaller EXCEPT !.task = task, !.key = key, !.input = input]
    IN  /\ caller[t].at = "idle"
        /\ IF memo_result = Nil
           THEN /\ wrapper_memo' = [wrapper_memo EXCEPT ![key] = Condition]
                /\ caller' = [caller EXCEPT ![t] =
                                [start EXCEPT !.at = IF lazy[task] THEN "body"
                                                     ELSE "cache"]]
           ELSE IF memo_result = Condition
           THEN /\ caller' = [caller EXCEPT ![t] = [start EXCEPT !.at = "wait"]]
                /\ UNCHANGED wrapper_memo
           ELSE /\ caller' = [caller EXCEPT ![t] =
                                [start EXCEPT !.at = "done",
                                              !.returned = Copy(memo_result)]]
                /\ UNCHANGED wrapper_memo
        /\ UNCHANGED <<executed, cache, lazy, env, prev, nonWrapperVars>>

\* the wait loop: after memo_result.wait(timeout=60) the memo is read again
\* under the lock; the loop ends when the value read is no Condition, and a
\* copy of that value is returned
WWait(t) ==
    /\ caller[t].at = "wait"
    /\ wrapper_memo[caller[t].key] # Condition
    /\ caller' = [caller EXCEPT ![t].at = "done",
                                ![t].returned = Copy(wrapper_memo[caller[t].key])]
    /\ UNCHANGED <<wrapper_memo, executed, cache, lazy, env, prev, nonWrapperVars>>

\* WCache letting the CacheError pass on to the caller
WCache_Propagates(t, outcome) ==
    /\ caller[t].at = "cache"
    /\ outcome = "hit" => CacheValid(caller[t].task, caller[t].input)
    /\ IF outcome = "hit"
       THEN /\ wrapper_memo' = [wrapper_memo EXCEPT
                                  ![caller[t].key] = cache[caller[t].task].value]
            /\ caller' = [caller EXCEPT
                            ![t].at = "done",
                            ![t].returned = Original(cache[caller[t].task].value)]
       ELSE /\ caller' = [caller EXCEPT ![t].at = "failed",
                                        ![t].cache_error = TRUE,
                                        ![t].raised = CacheError]
            /\ UNCHANGED wrapper_memo
    /\ UNCHANGED <<executed, cache, lazy, env, prev, nonWrapperVars>>

\* `if not task.lazy: try: ...`: retrieve_cached_output and
\* copy_cached_output_to_working_schema succeed, store_in_memo writes the
\* cached output over the Condition and the cached output is returned; or
\* one of the two raises CacheError, which is caught
WCache(t, outcome) ==
    /\ caller[t].at = "cache"
    /\ outcome = "hit" => CacheValid(caller[t].task, caller[t].input)
    /\ IF outcome = "hit"
       THEN /\ wrapper_memo' = [wrapper_memo EXCEPT
                                  ![caller[t].key] = cache[caller[t].task].value]
            /\ caller' = [caller EXCEPT
                            ![t].at = "done",
                            ![t].returned = Original(cache[caller[t].task].value)]
       ELSE /\ caller' = [caller EXCEPT ![t].at = "body",
                                        ![t].cache_error = TRUE]
            /\ UNCHANGED wrapper_memo
    /\ UNCHANGED <<executed, cache, lazy, env, prev, nonWrapperVars>>

\* dematerialise_task_inputs and self.fn(*args, **kwargs): the user body
\* runs and returns its value or raises
WBody(t, outcome) ==
    /\ caller[t].at = "body"
    /\ executed' = [executed EXCEPT ![caller[t].task] = Bump(@)]
    /\ caller' = [caller EXCEPT
                    ![t].ran = @ + 1,
                    ![t].at = IF outcome = "ok" THEN "materialise" ELSE "failed",
                    ![t].result = IF outcome = "ok"
                                  THEN BodyValue(caller[t].task, caller[t].input)
                                  ELSE "-",
                    ![t].raised = IF outcome = "ok" THEN "-" ELSE outcome]
    /\ UNCHANGED <<wrapper_memo, cache, lazy, env, prev, nonWrapperVars>>

\* TableOf comparing the cache function part under every cache key type
TableOf_EveryKeyType(task, result) ==
    LET part == CacheFnPart(CacheFnOutput(task),
                            GetCacheKeyType(env.ignore_fresh_input))
    IN  IF ~lazy[task] THEN "-"
        ELSE IF /\ cache[task].valid
                /\ cache[task].value = result
                /\ cache[task].table = part
        THEN cache[task].table
        ELSE part

\* the table the store hands on for the output of a task: none for a task
\* that is not lazy; for a lazy task the table it already keeps, if that was
\* made from the same output and is valid under the cache key type of the
\* run (for "default": made with the present output of the cache function),
\* and otherwise a new table made with the cache function part of this run
TableOf(task, result) ==
    LET cache_key_type == GetCacheKeyType(env.ignore_fresh_input)
        part == CacheFnPart(CacheFnOutput(task), cache_key_type)
    IN  IF ~lazy[task] THEN "-"
        ELSE IF /\ cache[task].valid
                /\ cache[task].value = result
                /\ cache_key_type = "tasks_only" \/ cache[task].table = part
        THEN cache[task].table
        ELSE part

\* materialise_task (the store keeps the output as the task's cached
\* output), store_in_memo, return materialised_result
WMaterialise(t) ==
    /\ caller[t].at = "materialise"
    /\ cache' = [cache EXCEPT ![caller[t].task] =
                   [input |-> caller[t].input,
                    cache_fn |-> CacheFnOutput(caller[t].task),
                    value |-> caller[t].result,
                    table |-> TableOf(caller[t].task, caller[t].result),
                    valid |-> TRUE]]
    /\ wrapper_memo' = [wrapper_memo EXCEPT ![caller[t].key] = caller[t].result]
    /\ caller' = [caller EXCEPT ![t].at = "done",
                                ![t].returned = Original(caller[t].result)]
    /\ UNCHANGED <<executed, lazy, env, prev, nonWrapperVars>>

\* the exception has left __call__, the task's state becomes failed, and
\* task_state_handler puts _nil in the place of a Condition
WStateHandler(t) ==
    /\ caller[t].at = "failed"
    /\ wrapper_memo' = [wrapper_memo EXCEPT ![caller[t].key] =
                          IF @ = Condition THEN Nil ELSE @]
    /\ caller' = [caller EXCEPT ![t].at = "done"]
    /\ UNCHANGED <<executed, cache, lazy, env, prev, nonWrapperVars>>

\* one run in a process that has defined its tasks, over a store that may
\* hold cached outputs of an earlier run
InitWrap ==
    /\ Constructed
    /\ phase = "running"
    /\ order = [f \in Flows |-> <<>>]
    /\ upstream = [task \in Tasks |-> {}]
    /\ stage_of = [task \in Tasks |-> 0]
    /\ locked = Stages
    /\ lock_state = [s \in Stages |-> LOCKED]
    /\ lazy \in [WTasks -> BOOLEAN]
    /\ \E cache_value \in WValues, ignore_fresh_input \in BOOLEAN :
          env = [run |-> 1, ignore_fresh_input |-> ignore_fresh_input,
                 cache_value |-> cache_value, lazy_value |-> "v0"]
    /\ prev = NoPrev
    /\ cache \in [WTasks -> {NoCached,
                             [input |-> NoInput, cache_fn |-> "v0",
                              value |-> "v0", table |-> "-",
                              valid |-> TRUE]}]

\* the inputs a task is called with
InputsOf(task) ==
    IF task = "out" THEN {NoInput}
    ELSE {[value |-> value, table |-> "-"] : value \in WValues}

NextWrap ==
    \/ \E t \in Threads, task \in WTasks : \E input \in InputsOf(task) :
          WLookup(t, task, input)
    \/ \E t \in Threads : WWait(t)
    \/ \E t \in Threads, outcome \in CacheOutcomes : WCache(t, outcome)
    \/ \E t \in Threads, outcome \in BodyOutcomes : WBody(t, outcome)
    \/ \E t \in Threads : WMaterialise(t)
    \/ \E t \in Threads : WStateHandler(t)

\* every worker calls a task once, concurrently with the others
SpecWrap == InitWrap /\ [][NextWrap]_vars

\* the workers that called with the cache key `key`
CallersOf(key) == {t \in Threads : caller[t].at # "idle" /\ caller[t].key = key}

\* C24: of the concurrent calls of a task with one cache key at most one
\* runs the user body, exactly one once all of them have ended unless the
\* store served the cached output, and every value a caller returns is the
\* one materialised result, so that all returned values are equal.
C24_OneExecutionEqualValues ==
    \A key \in WKeys :
        LET callers == CallersOf(key)
            ran == {t \in callers : caller[t].ran > 0}
            returned == {t \in callers : caller[t].at = "done" /\ caller[t].returned # NoValue}
        IN  /\ Cardinality(ran) <= 1
            /\ \A t \in returned : caller[t].returned.content \in WValues
            /\ \A t1, t2 \in returned :
                  caller[t1].returned.content = caller[t2].returned.content
            /\ (callers # {} /\ \A t \in callers : caller[t].at = "done") =>
                  \/ Cardinality(ran) = 1
                  \/ \E t \in callers : caller[t].ran = 0 /\ ~caller[t].returned.copied

\* C33: when the call that computes a key has failed (task_state_handler
\* has taken the Condition away), a caller waiting for that key ends with
\* an error too; it returns no value.
C33_WaitersFailWithComputer ==
    [][\A t \in Threads :
          (/\ caller[t].at = "wait" /\ caller'[t].at # "wait"
           /\ wrapper_memo[caller[t].key] = Nil) =>
              (caller'[t].raised # "-" /\ caller'[t].returned = NoValue)]_vars

\* C27: a CacheError of retrieve_cached_output or of
\* copy_cached_output_to_working_schema does not leave the call: the call
\* goes on to the user body, runs it once, and when it returns the
\* materialised result the memo entry of its cache key holds that result,
\* and keeps holding it.
C27_CacheErrorRecomputes ==
    /\ [][\A t \in Threads :
             (caller[t].at = "cache" /\ caller'[t].at # "cache"
                /\ caller'[t].returned = NoValue) =>
                 (caller'[t].at = "body" /\ caller'[t].raised = "-"
                    /\ caller'[t].cache_error)]_vars
    /\ [](\A t \in Threads :
             caller[t].cache_error =>
                /\ caller[t].at \in {"materialise", "done"} => caller[t].ran = 1
                /\ caller[t].at = "body" => caller[t].ran = 0
                /\ (caller[t].at = "done" /\ caller[t].returned # NoValue) =>
                       /\ caller[t].returned = Original(caller[t].result)
                       /\ wrapper_memo[caller[t].key] = caller[t].result)

\* a call went through a CacheError although the store held an output of
\* the task, ran the body and returned; a second caller of the same key got
\* a copy of the result
C27_Witness ==
    \E t1, t2 \in Threads :
        /\ caller[t1].cache_error /\ caller[t1].at = "done"
        /\ caller[t1].returned = Original("v1") /\ caller[t1].ran = 1
        /\ cache[caller[t1].task].value = "v1"
        /\ caller[t2].key = caller[t1].key /\ caller[t2].returned = Copy("v1")


----------------------------------------------------------------------------
(***************************************************************************)
(* RUNS of the flow `out -> child` in one process: each run calls the      *)
(* wrapper for out and then, with the value out returned, for child.       *)
(* Worker 1 runs out and worker 2 runs child.                              *)
(***************************************************************************)

\* both tasks of the current run have ended
RunEnded ==
    /\ env.run >= 1
    /\ caller[1].at = "done"
    /\ caller[2].at = "done"

\* flow.run(ignore_fresh_input=...): RunContext.get_cache_key_type gives
\* "tasks_only" with the flag and "default" without it; the outer world may
\* have changed what the cache function and a lazy body return.  The memo
\* belongs to the run (the task_memo of the RunContextServer made for it),
\* so every run starts with an empty one; the store outlives the runs.
RunStart(ignore_fresh_input, cache_value, lazy_value) ==
    /\ env.run < MaxRuns
    /\ env.run = 0 \/ RunEnded
    /\ env' = [run |-> env.run + 1, ignore_fresh_input |-> ignore_fresh_input,
               cache_value |-> cache_value, lazy_value |-> lazy_value]
    /\ prev' = IF env.run = 0 THEN NoPrev
               ELSE [out |-> caller[1].returned.content,
                     child |-> caller[2].returned.content,
                     cache_fn |-> cache["out"].cache_fn,
                     table |-> cache["out"].table,
                     ignore_fresh_input |-> env.ignore_fresh_input]
    /\ executed' = [task \in WTasks |-> 0]
    /\ caller' = [t \in Threads |-> NoCaller]
    /\ wrapper_memo' = [key \in WKeys |-> Nil]
    /\ UNCHANGED <<cache, lazy, nonWrapperVars>>

\* the engine calls out
RunOut ==
    /\ env.run >= 1
    /\ WLookup(1, "out", NoInput)

\* the engine calls child with the output of out
RunChild ==
    /\ env.run >= 1
    /\ caller[1].at = "done"
    /\ WLookup(2, "child", [value |-> caller[1].returned.content,
                            table |-> cache["out"].table])

\* the store answers a cache lookup by what it holds
RunCache(t) ==
    WCache(t, IF CacheValid(caller[t].task, caller[t].input)
              THEN "hit" ELSE "retrieve_error")

\* a process that has defined the flow with out lazy or not, and an empty
\* store
InitRuns ==
    /\ Constructed
    /\ phase = "running"
    /\ order = [f \in Flows |-> <<>>]
    /\ upstream = [task \in Tasks |-> {}]
    /\ stage_of = [task \in Tasks |-> 0]
    /\ locked = Stages
    /\ lock_state = [s \in Stages |-> LOCKED]
    /\ lazy \in {l \in [WTasks -> BOOLEAN] : ~l["child"]}
    /\ env = NoRun
    /\ prev = NoPrev
    /\ cache = [task \in WTasks |-> NoCached]

NextRuns ==
    \/ \E ignore_fresh_input \in BOOLEAN, cache_value, lazy_value \in WValues :
          RunStart(ignore_fresh_input, cache_value, lazy_value)
    \/ RunOut
    \/ RunChild
    \/ \E t \in Threads : RunCache(t)
    \/ \E t \in Threads : WBody(t, "ok")
    \/ \E t \in Threads : WMaterialise(t)

\* up to MaxRuns runs of the flow, one after the other
SpecRuns == InitRuns /\ [][NextRuns]_vars

----------------------------------------------------------------------------
(***************************************************************************)
(* CONTEXT OBJECTS: one thread entering and leaving with blocks of the     *)
(* context objects, which nest as with blocks do.                          *)
(***************************************************************************)

nonCtxVars == <<phase, upstream, stage_state, ref_count, locked, lock_state,
                pc, ret, reported, grants, released, memoVars, namesVars,
                lockVars, call, wire, got, scope, failures, wrapperVars,
                mutexVars, condVars>>

\* the first n openers
FirstOpeners(n) == {Openers[i] : i \in 1..n}

\* __enter__ running open() for every counter value
CtxEnter_AlwaysOpens(o, fail_at) ==
    LET counter == enter_counter[o] + 1
    IN  /\ Len(entered_ctx) < MaxDepth
        /\ Len(ctx_calls[o]) < MaxCalls
        /\ enter_counter' = [enter_counter EXCEPT ![o] = counter]
        /\ ctx_calls' = [ctx_calls EXCEPT ![o] = Append(@, "open")]
        /\ IF fail_at > 0
           THEN /\ resources' = [resources EXCEPT
                                   ![o] = @ \cup FirstOpeners(fail_at - 1)]
                /\ enter_failed' = [enter_failed EXCEPT ![o] = TRUE]
                /\ UNCHANGED <<token, context_var, entered_ctx>>
           ELSE /\ resources' = [resources EXCEPT
                                   ![o] = @ \cup FirstOpeners(Len(Openers))]
                /\ IF token[o].set
                   THEN UNCHANGED <<token, context_var>>
                   ELSE /\ token' = [token EXCEPT ![o] = Token(context_var)]
                        /\ context_var' = o
                /\ entered_ctx' = Append(entered_ctx, o)
                /\ UNCHANGED enter_failed
        /\ UNCHANGED nonCtxVars

\* BaseContext.__enter__: under _lock the counter goes up and, when it has
\* become 1, open() runs: ConfigContext.open opens the store, the lock
\* manager and the engine in turn, and the opener number fail_at (0: none)
\* raises, which ends __enter__ with the openers before it open.  After the
\* locked block a context that has a token returns; otherwise the context
\* variable is set and the token kept.
CtxEnter(o, fail_at) ==
    LET counter == enter_counter[o] + 1
        opens == counter = 1
    IN  /\ Len(entered_ctx) < MaxDepth
        /\ opens => Len(ctx_calls[o]) < MaxCalls
        /\ ~opens => fail_at = 0
        /\ enter_counter' = [enter_counter EXCEPT ![o] = counter]
        /\ ctx_calls' = IF opens
                        THEN [ctx_calls EXCEPT ![o] = Append(@, "open")]
                        ELSE ctx_calls
        /\ IF fail_at > 0
           THEN /\ resources' = [resources EXCEPT
                                   ![o] = @ \cup FirstOpeners(fail_at - 1)]
                /\ enter_failed' = [enter_failed EXCEPT ![o] = TRUE]
                /\ UNCHANGED <<token, context_var, entered_ctx>>
           ELSE /\ resources' = IF opens
                                THEN [resources EXCEPT
                                        ![o] = @ \cup FirstOpeners(Len(Openers))]
                                ELSE resources
                /\ IF token[o].set
                   THEN UNCHANGED <<token, context_var>>
                   ELSE /\ token' = [token EXCEPT ![o] = Token(context_var)]
                        /\ context_var' = o
                /\ entered_ctx' = Append(entered_ctx, o)
                /\ UNCHANGED enter_failed
        /\ UNCHANGED nonCtxVars

\* BaseContext.__exit__ of the innermost with block: under _lock the
\* counter goes down and, when it has become 0: RuntimeError without a
\* token, else _context_var.reset(self._token), _token = None and close(),
\* which closes the store, the lock manager and the engine
CtxExit ==
    /\ entered_ctx # <<>>
    /\ LET o == entered_ctx[Len(entered_ctx)]
           counter == enter_counter[o] - 1
       IN  /\ enter_counter' = [enter_counter EXCEPT ![o] = counter]
           /\ entered_ctx' = SubSeq(entered_ctx, 1, Len(entered_ctx) - 1)
           /\ IF counter = 0 /\ token[o].set
              THEN /\ context_var' = token[o].old_value
                   /\ token' = [token EXCEPT ![o] = NoToken]
                   /\ resources' = [resources EXCEPT ![o] = {}]
                   /\ ctx_calls' = [ctx_calls EXCEPT ![o] = Append(@, "close")]
              ELSE UNCHANGED <<context_var, token, resources, ctx_calls>>
    /\ UNCHANGED <<enter_failed, nonCtxVars>>

NextCtx ==
    \/ \E o \in Contexts, fail_at \in 0..Len(Openers) : CtxEnter(o, fail_at)
    \/ CtxExit

\* one thread that uses the context objects in with blocks
SpecCtx == InitStage /\ [][NextCtx]_vars

\* how many with blocks of the object the thread is in
Entries(o) == Cardinality({i \in 1..Len(entered_ctx) : entered_ctx[i] = o})

\* C28: for a context object whose __enter__ calls all returned (so that
\* each has its __exit__): open() is called exactly in the __enter__ that
\* takes the counter from 0 to 1 and close() exactly in the __exit__ that
\* takes it from 1 to 0; the calls alternate, starting with open; the
\* counter is the number of with blocks entered; and outside all with
\* blocks of the object the counter is 0, the token is gone, the context
\* variable is back at the value it had before the outermost entry, and
\* nothing is open.
C28_OpenCloseByCounter ==
    /\ [][\A o \in Contexts : ~enter_failed'[o] =>
             /\ (enter_counter[o] = 0 /\ enter_counter'[o] = 1)
                   <=> ctx_calls'[o] = Append(ctx_calls[o], "open")
             /\ (enter_counter[o] = 1 /\ enter_counter'[o] = 0)
                   <=> ctx_calls'[o] = Append(ctx_calls[o], "close")
             /\ (enter_counter[o] = 1 /\ enter_counter'[o] = 0) =>
                   /\ context_var' = token[o].old_value
                   /\ token'[o] = NoToken
             /\ ctx_calls'[o] \in {ctx_calls[o], Append(ctx_calls[o], "open"),
                                   Append(ctx_calls[o], "close")}]_vars
    /\ [](\A o \in Contexts : ~enter_failed[o] =>
             /\ \A i \in 1..Len(ctx_calls[o]) :
                   ctx_calls[o][i] = IF i % 2 = 1 THEN "open" ELSE "close"
             /\ enter_counter[o] = Entries(o)
             /\ (enter_counter[o] > 0) <=> (Len(ctx_calls[o]) % 2 = 1)
             /\ resources[o] = IF enter_counter[o] > 0
                               THEN FirstOpeners(Len(Openers)) ELSE {}
             /\ enter_counter[o] = 0 =>
                   /\ token[o] = NoToken
                   /\ context_var # o)
    /\ [](entered_ctx = <<>> /\ (\A o \in Contexts : ~enter_failed[o])
             => context_var = Unset)

\* the thread has left all with blocks after nested entries of both
\* objects: a was opened and closed twice, b once
C28_Witness ==
    /\ entered_ctx = <<>>
    /\ \A o \in Contexts : ~enter_failed[o] /\ enter_counter[o] = 0
    /\ ctx_calls["a"] = <<"open", "close", "open", "close">>
    /\ ctx_calls["b"] = <<"open", "close">>
    /\ context_var = Unset

\* C36: an __enter__ that ends with an error of open() leaves the object
\* un-entered: outside the with blocks of the object its counter is 0 and it
\* has no token, also after such an error, and the __enter__ that follows
\* such an error outside all with blocks of the object calls open() again.
C36_FailedEnterLeavesUnentered ==
    /\ [](\A o \in Contexts :
             Entries(o) = 0 => enter_counter[o] = 0 /\ token[o] = NoToken)
    /\ [][\A o \in Contexts :
             (enter_failed[o] /\ Entries(o) = 0
                /\ enter_counter'[o] = enter_counter[o] + 1) =>
                 ctx_calls'[o] = Append(ctx_calls[o], "open")]_vars

----------------------------------------------------------------------------
(***************************************************************************)
(* SERVER MUTEXES: the handler threads of the server with the taking and   *)
(* giving back of the four mutexes as steps of their own.  All requests    *)
(* are about stage 0 and one memo key.                                      *)
(***************************************************************************)

\* the handler threads that serve requests, the operations requested, and
\* the memo key and table name they are about
MutexThreads == {1, 2}
MutexOps == ServerOps \ {"enter_commit_stage", "exit_commit_stage",
                          "get_stage_state", "exit_task_memo", "remove_names",
                          "release_stage_lock"}
MutexMemoKey == <<0, <<"a", "-", "b">>>>
MutexTable == "t"

nonMutexVars == <<phase, upstream, pc, ret, grants, released, stage_of, entered,
                  misses, stored, blob_names, names_lock, response, lockVars,
                  call, wire, got, scope, failures, wrapperVars, ctxVars, condVars>>

\* what the operations read and write
serverData == <<stage_state, task_memo, ref_count, reported, table_names,
                locked, lock_state>>

\* the mutexes a handler thread holds
Held(t) == {m \in Mutexes : mutex[m] = t}

\* handle_request calls the operation: one that takes a mutex is at its
\* `with` statement, the others are at their lock manager call.  The engine
\* reports every task once.
Call(t, op, success, task) ==
    /\ phase = "running"
    /\ handler[t].at = "idle"
    /\ IF op = "did_finish_task"
       THEN /\ task \notin reported
            /\ \A u \in Threads :
                  ~(handler[u].op = "did_finish_task" /\ handler[u].task = task)
       ELSE task = 0
    /\ op \notin ExitStageOps \cup {"exit_task_memo"} => ~success
    /\ handler' = [handler EXCEPT ![t] =
                     [NoHandler EXCEPT
                        !.op = op, !.success = success, !.task = task,
                        !.at = IF op \in LockManagerOps THEN "lock_manager"
                               ELSE "acquire",
                        !.block = IF op \in LockManagerOps THEN 0 ELSE 1]]
    /\ UNCHANGED <<mutex, serverData, nonMutexVars>>

\* `with self.<lock>:` resp. the `with getattr(self, lock_attr):` of
\* synchronized: the thread gets the mutex when no thread holds it
Acquire(t) ==
    /\ handler[t].at = "acquire"
    /\ mutex[MutexOf(handler[t].op)] = 0
    /\ mutex' = [mutex EXCEPT ![MutexOf(handler[t].op)] = t]
    /\ handler' = [handler EXCEPT ![t].at = "locked"]
    /\ UNCHANGED <<serverData, nonMutexVars>>

\* where an operation goes on after its block: the wait loop of
\* _enter_stage_state_transition (no return in its first block) and of
\* enter_task_memo (no miss), the release loop of did_finish_task, and
\* otherwise the end of the operation
AfterBlock(t) ==
    LET h == handler[t]
        k == StageKind(h.op)
    IN  IF h.op \in EnterStageOps /\ h.block = 1
           /\ stage_state[0] \notin {To(k), From(k)}
        THEN "wait"
        ELSE IF h.op = "enter_task_memo" /\ task_memo[MutexMemoKey] # NONE
        THEN "wait"
        ELSE IF h.op = "did_finish_task" /\ StagesToRelease(h.task) # {}
        THEN "lock_manager"
        ELSE "idle"

\* what the body of a block does to the state of the server
BlockBody(t) ==
    LET h == handler[t]
        k == StageKind(h.op)
        state == stage_state[0]
        memo == task_memo[MutexMemoKey]
    IN  /\ stage_state' =
              IF h.op \in EnterStageOps /\ h.block = 1 /\ state = From(k)
              THEN [stage_state EXCEPT ![0] = Transition(k)]
              ELSE IF h.op \in ExitStageOps /\ ~h.success
              THEN [stage_state EXCEPT ![0] = FAILED]
              ELSE IF h.op \in ExitStageOps /\ state = Transition(k)
              THEN [stage_state EXCEPT ![0] = To(k)]
              ELSE stage_state
        /\ task_memo' =
              IF h.op = "enter_task_memo" /\ memo = NONE
              THEN [task_memo EXCEPT ![MutexMemoKey] = WAITING]
              ELSE IF h.op = "store_task_memo" /\ memo = WAITING
              THEN [task_memo EXCEPT ![MutexMemoKey] = "r1"]
              ELSE IF h.op = "exit_task_memo" /\ ~h.success
              THEN [task_memo EXCEPT ![MutexMemoKey] = MemoFAILED]
              ELSE task_memo
        /\ ref_count' = IF h.op = "did_finish_task"
                        THEN Decremented(h.task) ELSE ref_count
        /\ reported' = IF h.op = "did_finish_task"
                       THEN reported \cup {h.task} ELSE reported
        /\ table_names' =
              IF h.op = "add_names"
              THEN [table_names EXCEPT ![0] = @ \cup {MutexTable}]
              ELSE IF h.op = "remove_names"
              THEN [table_names EXCEPT ![0] = @ \ {MutexTable}]
              ELSE table_names

\* where the thread is after the block
BlockLeft(t) ==
    IF AfterBlock(t) = "idle"
    THEN [handler EXCEPT ![t] = NoHandler]
    ELSE [handler EXCEPT
            ![t].at = AfterBlock(t),
            ![t].todo = IF handler[t].op = "did_finish_task"
                        THEN StagesToRelease(handler[t].task) ELSE {}]

\* Block with the release loop of did_finish_task inside the block
Block_ReleasesInside(t) ==
    /\ handler[t].at = "locked"
    /\ BlockBody(t)
    /\ mutex' = IF AfterBlock(t) = "lock_manager" THEN mutex
                ELSE [mutex EXCEPT ![MutexOf(handler[t].op)] = 0]
    /\ handler' = BlockLeft(t)
    /\ UNCHANGED <<locked, lock_state, nonMutexVars>>

\* Block with the polling loops inside the block
Block_WaitsInside(t) ==
    /\ handler[t].at = "locked"
    /\ BlockBody(t)
    /\ mutex' = IF AfterBlock(t) = "wait" THEN mutex
                ELSE [mutex EXCEPT ![MutexOf(handler[t].op)] = 0]
    /\ handler' = BlockLeft(t)
    /\ UNCHANGED <<locked, lock_state, nonMutexVars>>

\* the body of a `with` block resp. of a synchronized function, to its end,
\* where the mutex is given back (also when the body raises)
Block(t) ==
    /\ handler[t].at = "locked"
    /\ BlockBody(t)
    /\ mutex' = [mutex EXCEPT ![MutexOf(handler[t].op)] = 0]
    /\ handler' = BlockLeft(t)
    /\ UNCHANGED <<locked, lock_state, nonMutexVars>>

\* the polling loops: `while self.stage_state[stage_id] == transition:
\* time.sleep(0.01)`, after which the second block follows, and `while memo
\* is MemoState.WAITING: time.sleep(0.01); memo = self.task_memo[memo_key]`,
\* after which enter_task_memo raises or returns
WaitEnds(t) ==
    LET h == handler[t]
    IN  /\ h.at = "wait"
        /\ IF h.op \in EnterStageOps
           THEN /\ stage_state[0] # Transition(StageKind(h.op))
                /\ handler' = [handler EXCEPT ![t].at = "acquire",
                                              ![t].block = 2]
           ELSE /\ task_memo[MutexMemoKey] # WAITING
                /\ handler' = [handler EXCEPT ![t] = NoHandler]
        /\ UNCHANGED <<mutex, serverData, nonMutexVars>>

\* a call of the lock manager returns: release (one stage of
\* stages_to_release, or the stage of release_stage_lock); acquire, which
\* blocks while the lock is held; get_lock_state, after which
\* validate_stage_lock sleeps and asks again while the state is UNCERTAIN
LockManagerCall(t) ==
    LET h == handler[t]
    IN  /\ h.at = "lock_manager"
        /\ IF h.op = "did_finish_task"
           THEN \E s \in h.todo :
                  /\ locked' = locked \ {s}
                  /\ lock_state' = [lock_state EXCEPT ![s] = UNLOCKED]
                  /\ handler' = IF h.todo = {s}
                                THEN [handler EXCEPT ![t] = NoHandler]
                                ELSE [handler EXCEPT ![t].todo = @ \ {s}]
           ELSE IF h.op = "acquire_stage_lock"
           THEN /\ 0 \notin locked
                /\ locked' = locked \cup {0}
                /\ lock_state' = [lock_state EXCEPT ![0] = LOCKED]
                /\ handler' = [handler EXCEPT ![t] = NoHandler]
           ELSE IF h.op = "release_stage_lock"
           THEN /\ locked' = locked \ {0}
                /\ lock_state' = [lock_state EXCEPT ![0] = UNLOCKED]
                /\ handler' = [handler EXCEPT ![t] = NoHandler]
           ELSE /\ lock_state[0] # UNCERTAIN
                /\ handler' = [handler EXCEPT ![t] = NoHandler]
                /\ UNCHANGED <<locked, lock_state>>
        /\ UNCHANGED <<mutex, stage_state, task_memo, ref_count, reported,
                       table_names, nonMutexVars>>

\* a constructed server whose tasks all have stage 0 upstream
InitMutex ==
    /\ Constructed
    /\ WrapperUnused
    /\ phase = "constructed"
    /\ order = [f \in Flows |-> <<>>]
    /\ upstream = [task \in Tasks |-> {0}]
    /\ stage_of = [task \in Tasks |-> 0]
    /\ locked = {}
    /\ lock_state = [s \in Stages |-> UNLOCKED]

NextMutex ==
    \/ ServerEnter
    \/ \E t \in MutexThreads, op \in MutexOps, success \in BOOLEAN,
          task \in Tasks : Call(t, op, success, task)
    \/ \E t \in MutexThreads : Acquire(t)
    \/ \E t \in MutexThreads : Block(t)
    \/ \E t \in MutexThreads : WaitEnds(t)
    \/ \E t \in MutexThreads : LockManagerCall(t)
    \/ BecomeUncertain(0)
    \/ \E state \in {LOCKED, INVALID} : Resolve(0, state)

\* concurrent requests of any kind
SpecMutex == InitMutex /\ [][NextMutex]_vars

\* C29: no handler thread holds two of the four mutexes; a thread that
\* holds one is inside the block of its operation, which it can always
\* finish, giving the mutex back; a thread at a call of the lock manager
\* holds none; so a thread waiting for a mutex always has a holder that
\* can go on.
C29_OneMutexNoLockManager ==
    \A t \in Threads :
        /\ Cardinality(Held(t)) <= 1
        /\ handler[t].at = "lock_manager" => Held(t) = {}
        /\ Held(t) # {} =>
              /\ handler[t].at = "locked"
              /\ Held(t) = {MutexOf(handler[t].op)}
              /\ ENABLED Block(t)
        /\ handler[t].at = "acquire" =>
              \/ ENABLED Acquire(t)
              \/ \E u \in Threads \ {t} :
                    /\ mutex[MutexOf(handler[t].op)] = u
                    /\ ENABLED Block(u)

\* a thread is at the lock manager releasing the stage of the last finished
\* task while the other thread, in get_stage_ref_count, holds ref_count_lock
C29_Witness ==
    \E t, u \in Threads :
        /\ handler[t].op = "did_finish_task" /\ handler[t].at = "lock_manager"
        /\ handler[t].todo = {0}
        /\ handler[u].op = "get_stage_ref_count"
        /\ mutex["ref_count_lock"] = u

\* a handler thread is suspended: in a polling loop, or in a call of the
\* lock manager that blocks or is repeated
Suspended(t) ==
    \/ handler[t].at = "wait"
    \/ /\ handler[t].at = "lock_manager"
       /\ handler[t].op \in {"acquire_stage_lock", "validate_stage_lock"}

\* C30: a suspended handler thread holds no mutex, and while it is
\* suspended every mutex is free or held by a thread inside a block that
\* it can finish: a request of another thread, such as the exit_init_stage
\* or store_task_memo that ends the wait, gets its mutex.
C30_SuspendedHoldsNothing ==
    \A t \in Threads :
        Suspended(t) =>
            /\ Held(t) = {}
            /\ \A m \in Mutexes :
                  \/ mutex[m] = 0
                  \/ mutex[m] # t /\ ENABLED Block(mutex[m])

\* while a thread waits in enter_init_stage for the end of the
\* initialisation, another is inside the block of exit_init_stage
C30_Witness ==
    \E t, u \in Threads :
        /\ handler[t].op = "enter_init_stage" /\ handler[t].at = "wait"
        /\ stage_state[0] = INITIALIZING
        /\ handler[u].op = "exit_init_stage" /\ handler[u].at = "locked"
        /\ mutex["stage_state_lock"] = u

----------------------------------------------------------------------------
(***************************************************************************)
(* WRAPPER LOCK AND CONDITIONS: the callers of one task with one cache key *)
(* in MaterialisationWrapper.__call__, store_in_memo and                   *)
(* task_state_handler, one step per lock operation.  The caller that finds *)
(* _nil puts its Condition into the memo and computes; the others wait on  *)
(* the Condition they read.                                                *)
(***************************************************************************)

\* what these steps leave alone
nonCondVars == <<phase, upstream, stage_state, ref_count, locked, lock_state,
                 pc, ret, reported, grants, released, memoVars, namesVars,
                 lockVars, call, wire, got, scope, failures, wrapperVars,
                 ctxVars, mutexVars>>

\* where a thread is about to take self.__lock, and where it is once it has
LockPoints == [lookup |-> "lookup_locked", reread |-> "reread_locked",
               store |-> "store_locked", handler |-> "handler_locked"]

\* where a thread is about to take the lock of its Condition, and after
ConditionPoints == [loop |-> "wait", reacquire |-> "woken",
                    store_cond |-> "store_notify",
                    handler_cond |-> "handler_notify"]

\* where a caller that found a Condition is until it returns
WaiterPoints == {"loop", "wait", "waiting", "reacquire", "woken", "reread",
                 "reread_locked"}

\* __call__ up to `with self.__lock:` (cache key computed)
CondCall(t) ==
    /\ wcall[t].at = "idle"
    /\ wcall' = [wcall EXCEPT ![t].at = "lookup"]
    /\ UNCHANGED <<wrapper_lock, condition, memo_entry, nonCondVars>>

\* `with self.__lock:` taking the lock, which waits while another holds it
WAcquire(t) ==
    /\ wcall[t].at \in DOMAIN LockPoints
    /\ wrapper_lock = 0
    /\ wrapper_lock' = t
    /\ wcall' = [wcall EXCEPT ![t].at = LockPoints[wcall[t].at]]
    /\ UNCHANGED <<condition, memo_entry, nonCondVars>>

\* `with memo_result:` / `with condition:` and the end of wait() taking the
\* lock of the Condition
CAcquire(t) ==
    /\ wcall[t].at \in DOMAIN ConditionPoints
    /\ condition[wcall[t].cond].lock = 0
    /\ condition' = [condition EXCEPT ![wcall[t].cond].lock = t]
    /\ wcall' = [wcall EXCEPT ![t].at = ConditionPoints[wcall[t].at]]
    /\ UNCHANGED <<wrapper_lock, memo_entry, nonCondVars>>

\* the first locked block: read the memo, write a new Condition over _nil;
\* then compute (own Condition), wait (Condition of another) or return a copy
LookupBody(t) ==
    /\ wcall[t].at = "lookup_locked"
    /\ wrapper_lock' = 0
    /\ IF memo_entry.kind = Nil
       THEN /\ memo_entry' = ConditionEntry(t)
            /\ wcall' = [wcall EXCEPT ![t].at = "compute", ![t].cond = t]
       ELSE IF memo_entry.kind = Condition
       THEN /\ wcall' = [wcall EXCEPT ![t].at = "loop",
                                      ![t].cond = memo_entry.id]
            /\ UNCHANGED memo_entry
       ELSE /\ wcall' = [wcall EXCEPT ![t].at = "done",
                                      ![t].returned = Copy(memo_entry.content)]
            /\ UNCHANGED memo_entry
    /\ UNCHANGED <<condition, nonCondVars>>

\* memo_result.wait(timeout=60) begins: the thread joins the waiters and
\* gives the lock of the Condition back
WaitStart(t) ==
    /\ wcall[t].at = "wait"
    /\ condition' = [condition EXCEPT
                       ![wcall[t].cond].lock = 0,
                       ![wcall[t].cond].waiters = @ \cup {t}]
    /\ wcall' = [wcall EXCEPT ![t].at = "waiting"]
    /\ UNCHANGED <<wrapper_lock, memo_entry, nonCondVars>>

\* a wait without timeout: it ends only by notify_all
Wake_NoTimeout(t) ==
    /\ wcall[t].at = "waiting"
    /\ t \notin condition[wcall[t].cond].waiters
    /\ wcall' = [wcall EXCEPT ![t].at = "reacquire"]
    /\ UNCHANGED <<wrapper_lock, condition, memo_entry, nonCondVars>>

\* the wait ends: notify_all has taken the thread from the waiters, or the
\* timeout is over and the thread takes itself from them
Wake(t) ==
    /\ wcall[t].at = "waiting"
    /\ condition' = [condition EXCEPT ![wcall[t].cond].waiters = @ \ {t}]
    /\ wcall' = [wcall EXCEPT ![t].at = "reacquire"]
    /\ UNCHANGED <<wrapper_lock, memo_entry, nonCondVars>>

\* the end of `with memo_result:`
WaitLeft(t) ==
    /\ wcall[t].at = "woken"
    /\ condition' = [condition EXCEPT ![wcall[t].cond].lock = 0]
    /\ wcall' = [wcall EXCEPT ![t].at = "reread"]
    /\ UNCHANGED <<wrapper_lock, memo_entry, nonCondVars>>

\* `with self.__lock: memo_result = self.memo[...]`, the loop condition and,
\* for a value that is no Condition, `return deepmutate(memo_result, copy.copy)`
Reread(t) ==
    /\ wcall[t].at = "reread_locked"
    /\ wrapper_lock' = 0
    /\ IF memo_entry.kind = Condition
       THEN wcall' = [wcall EXCEPT ![t].at = "loop", ![t].cond = memo_entry.id]
       ELSE wcall' = [wcall EXCEPT ![t].at = "done", ![t].cond = 0,
                                   ![t].returned = Copy(memo_entry.content)]
    /\ UNCHANGED <<condition, memo_entry, nonCondVars>>

\* the cache lookup or the user body and materialise_task have ended: with
\* an output, which goes to store_in_memo, or with an exception, which
\* leaves __call__ and brings task_state_handler
ComputeEnds(t, outcome) ==
    /\ wcall[t].at = "compute"
    /\ wcall' = [wcall EXCEPT
                   ![t].at = IF outcome = "ok" THEN "store" ELSE "handler",
                   ![t].raised = IF outcome = "ok" THEN "-" ELSE outcome]
    /\ UNCHANGED <<wrapper_lock, condition, memo_entry, nonCondVars>>

\* store_in_memo under self.__lock: condition = memo entry, memo entry = result
StoreWrite(t) ==
    /\ wcall[t].at = "store_locked"
    /\ memo_entry' = ResultEntry
    /\ wcall' = [wcall EXCEPT ![t].at = "store_cond", ![t].cond = memo_entry.id]
    /\ UNCHANGED <<wrapper_lock, condition, nonCondVars>>

\* store_in_memo: condition.notify_all(), the end of both `with` blocks and
\* `return materialised_result`
StoreNotify(t) ==
    /\ wcall[t].at = "store_notify"
    /\ condition' = [condition EXCEPT ![wcall[t].cond] = NoCondition]
    /\ wrapper_lock' = 0
    /\ wcall' = [wcall EXCEPT ![t].at = "done", ![t].cond = 0,
                              ![t].returned = Original(memo_entry.content)]
    /\ UNCHANGED <<memo_entry, nonCondVars>>

\* task_state_handler under self.__lock: the memo entry is read; a
\* Condition is to be notified, anything else ends the handler
HandlerRead(t) ==
    /\ wcall[t].at = "handler_locked"
    /\ IF memo_entry.kind = Condition
       THEN /\ wcall' = [wcall EXCEPT ![t].at = "handler_cond",
                                      ![t].cond = memo_entry.id]
            /\ UNCHANGED wrapper_lock
       ELSE /\ wcall' = [wcall EXCEPT ![t].at = "done", ![t].cond = 0]
            /\ wrapper_lock' = 0
    /\ UNCHANGED <<condition, memo_entry, nonCondVars>>

\* task_state_handler: memo_result.notify_all(), the memo entry becomes
\* _nil, both `with` blocks end
HandlerNotify(t) ==
    /\ wcall[t].at = "handler_notify"
    /\ condition' = [condition EXCEPT ![wcall[t].cond] = NoCondition]
    /\ memo_entry' = NilEntry
    /\ wrapper_lock' = 0
    /\ wcall' = [wcall EXCEPT ![t].at = "done", ![t].cond = 0]
    /\ UNCHANGED nonCondVars

\* the steps of a thread between the call and its end, the computation apart
Proceed(t) ==
    \/ WAcquire(t)
    \/ CAcquire(t)
    \/ LookupBody(t)
    \/ WaitStart(t)
    \/ Wake(t)
    \/ WaitLeft(t)
    \/ Reread(t)
    \/ StoreWrite(t)
    \/ StoreNotify(t)
    \/ HandlerRead(t)
    \/ HandlerNotify(t)

NextCond ==
    \/ \E t \in WrapperThreads : CondCall(t)
    \/ \E t \in WrapperThreads, outcome \in BodyOutcomes : ComputeEnds(t, outcome)
    \/ \E t \in WrapperThreads : Proceed(t)

\* every thread calls the task once, concurrently with the others
SpecCond == InitStage /\ [][NextCond]_vars

\* a thread that can go on does go on, and a wait(timeout=60) ends when its
\* time is over; a thread blocked on a lock gets it when the lock is given
\* back again and again (the holders keep a lock for the few statements of
\* a block, and a waiter sleeps up to 60 seconds between two of its blocks).
\* Nothing is assumed about when a call begins or a body ends.
FairCond ==
    /\ SpecCond
    /\ \A t \in WrapperThreads : WF_vars(Proceed(t))
    /\ \A t \in WrapperThreads : SF_vars(WAcquire(t))
    /\ \A t \in WrapperThreads : SF_vars(CAcquire(t))

\* the threads inside the wrapper that are not computing
Inside == {t \in WrapperThreads : wcall[t].at \notin {"idle", "compute", "done"}}

\* C35: once store_in_memo has written the result, every caller that found
\* the Condition returns a copy of that result in the end, wherever it was
\* between its read, its wait and the notify_all; store_in_memo and
\* task_state_handler come to their end; and as long as a thread is inside
\* the wrapper and not computing, some such thread can take a step (no
\* deadlock on self.__lock and the lock of a Condition).
C35_WaitersReturnStoredResult ==
    /\ \A t \in WrapperThreads :
          (wcall[t].at \in WaiterPoints /\ memo_entry = ResultEntry)
          ~> (wcall[t].at = "done" /\ wcall[t].returned = Copy(ResultEntry.content))
    /\ \A t \in WrapperThreads :
          (wcall[t].at \in {"store", "handler"}) ~> (wcall[t].at = "done")
    /\ [](Inside # {} => \E t \in Inside : ENABLED <<Proceed(t)>>_vars)

\* store_in_memo has notified and ended; one caller that had read the
\* Condition has not begun to wait, another began to wait after the
\* notify_all and is among the waiters
C35_Witness ==
    \E t1, t2, t3 \in WrapperThreads :
        /\ wcall[t1].at = "done" /\ wcall[t1].returned = Original("v0")
        /\ wcall[t2].at = "loop" /\ wcall[t2].cond = t1
        /\ wcall[t3].at = "waiting" /\ wcall[t3].cond = t1
        /\ t3 \in condition[t1].waiters
        /\ memo_entry = ResultEntry

=============================================================================
